---- MODULE Spec2Model ----
(***************************************************************************)
(* A model of the BlueDeem clinic chatbot: the booking state machine       *)
(* (core/booking.py), the router (core/router.py), the intent classifier   *)
(* (core/intent.py), the turn log (core/context.py) and the webhook        *)
(* boundary with its dedupe set and rate limiter (routes/webhook.py,       *)
(* middleware/rate_limit.py).                                              *)
(*                                                                         *)
(* Texts.  A Python str is modelled as the tuple of its Unicode code       *)
(* points, so that strip, lower, "in", startswith, replace and the regular *)
(* expressions of the source are computed character by character.  The     *)
(* comment after a tuple shows the text it encodes.                        *)
(*                                                                         *)
(* Tables.  Each SQL table is the set (or sequence) of its rows; a query   *)
(* is the filter the source writes.  The collected_data dict of a booking  *)
(* is a function from field names to texts (json.dumps / json.loads of a   *)
(* dict of strings gives the dict back).                                   *)
(***************************************************************************)
EXTENDS Integers, Sequences, FiniteSets, TLC

VARIABLES
    conversation_state,    \* table conversation_state: set of rows
    booking_tickets,       \* table booking_tickets: sequence of rows, in insertion order
    conversation_history,  \* table conversation_history: set of rows
    processed_messages,    \* table processed_messages (the dedupe set): sequence of rows
    data_handler,          \* data.handler.data_handler: the lists it holds
    cache,                 \* data.handler.cache: the module's TTL cache
    chat_router,           \* the Router of routes.webhook and the Router of routes.chat
    requests,              \* rate_limiter.requests: user_id -> the timestamps kept
    in_flight,             \* webhook requests whose body has arrived, handler not yet run
    outbox,                \* what send_outgoing was asked to send, in order
    clock,                 \* utcnow(), in seconds
    served,                \* number of requests the process has taken
    last                   \* what the last request did: inputs, status, reply, calls made

vars == <<conversation_state, booking_tickets, conversation_history, processed_messages,
          data_handler, cache, chat_router, requests, in_flight, outbox, clock, served, last>>

\* ------------------------------------------------------------------------
\* Python text primitives
\* ------------------------------------------------------------------------

\* Python's None, where a text or a date is expected.
None == <<-1>>

\* The element of a one-element set: Only({body : x \in {e}}) is body with
\* x naming e, which is computed once and read many times.
Only(S) == CHOOSE y \in S : TRUE

\* str.isspace() for one character: what str.strip() removes.
IsSpace(c) ==
    \/ c \in {9, 10, 11, 12, 13, 28, 29, 30, 31, 32, 133, 160, 5760}
    \/ c \in 8192..8202
    \/ c \in {8232, 8233, 8239, 8287, 12288}

\* The regular-expression class \d on str: Unicode decimal digits.  The scripts
\* the model's texts use: ASCII, Arabic-Indic, Extended Arabic-Indic.
IsDigit(c) == c \in 48..57 \/ c \in 1632..1641 \/ c \in 1776..1785

\* int() of one digit character.
DigitValue(c) ==
    IF c \in 48..57 THEN c - 48
    ELSE IF c \in 1632..1641 THEN c - 1632
    ELSE c - 1776

\* str.strip()
strip(s) ==
    IF \A i \in 1..Len(s) : IsSpace(s[i]) THEN <<>>
    ELSE SubSeq(s,
                CHOOSE i \in 1..Len(s) : ~IsSpace(s[i]) /\ \A j \in 1..(i - 1) : IsSpace(s[j]),
                CHOOSE i \in 1..Len(s) : ~IsSpace(s[i]) /\ \A j \in (i + 1)..Len(s) : IsSpace(s[j]))

\* str.lower(): of the characters the model's texts use, only A-Z have a lower case.
lower(s) == [i \in 1..Len(s) |-> IF s[i] \in 65..90 THEN s[i] + 32 ELSE s[i]]

\* sub in s
contains(s, sub) ==
    \E i \in 0..(Len(s) - Len(sub)) : SubSeq(s, i + 1, i + Len(sub)) = sub

\* s.startswith(pre)
startswith(s, pre) == Len(pre) <= Len(s) /\ SubSeq(s, 1, Len(pre)) = pre

\* any(w in s for w in words), words a set of texts
any_in(words, s) == \E w \in words : contains(s, w)

\* The elements of a list.
Range(q) == {q[i] : i \in 1..Len(q)}

\* The least element of a non-empty set of numbers.
Least(S) == CHOOSE x \in S : \A y \in S : x <= y

\* The decimal digits of n, zero-padded to width w (f"{n:0wd}", strftime fields).
RECURSIVE Digits(_, _)
Digits(n, w) ==
    IF w = 0 THEN <<>> ELSE Append(Digits(n \div 10, w - 1), 48 + (n % 10))

\* ------------------------------------------------------------------------
\* utils/phone.py
\* ------------------------------------------------------------------------

\* SAUDI_PHONE_PATTERN.match(s): ^(?:\+966|00966|966|0)?5\d{8}$
SAUDI_PHONE_PATTERN(s) ==
    \E pre \in {<<>>, <<43, 57, 54, 54>> (* +966 *), <<48, 48, 57, 54, 54>> (* 00966 *), <<57, 54, 54>> (* 966 *), <<48>> (* 0 *)} :
        /\ startswith(s, pre)
        /\ Len(s) = Len(pre) + 9
        /\ s[Len(pre) + 1] = 53
        /\ \A i \in (Len(pre) + 2)..Len(s) : IsDigit(s[i])

\* normalize_phone: the canonical number, or None.
normalize_phone(phone) ==
    IF phone = <<>> THEN None
    ELSE Only({Only({Only({IF SAUDI_PHONE_PATTERN(cleaned) THEN cleaned ELSE None
               : cleaned \in {IF startswith(cleaned1, <<48>>) THEN cleaned1 ELSE <<48>> \o cleaned1}})
               : cleaned1 \in {IF startswith(cleaned0, <<43, 57, 54, 54>> (* +966 *))
             THEN <<48>> \o SubSeq(cleaned0, 5, Len(cleaned0))
             ELSE IF startswith(cleaned0, <<48, 48, 57, 54, 54>> (* 00966 *))
             THEN <<48>> \o SubSeq(cleaned0, 6, Len(cleaned0))
             ELSE IF startswith(cleaned0, <<57, 54, 54>> (* 966 *))
             THEN <<48>> \o SubSeq(cleaned0, 4, Len(cleaned0))
             ELSE cleaned0}})
               : cleaned0 \in {SelectSeq(strip(phone), LAMBDA c : IsDigit(c) \/ c = 43)}})

\* ------------------------------------------------------------------------
\* utils/date_parser.py.  A date is <<year, month, day>>.
\* ------------------------------------------------------------------------

\* get_today_riyadh(): the day the model runs on (4 November 2026, a Wednesday).
Today == <<2026, 11, 4>>

IsLeap(y) == (y % 4 = 0 /\ y % 100 # 0) \/ y % 400 = 0

DaysInMonth(y, m) ==
    IF m = 2 THEN (IF IsLeap(y) THEN 29 ELSE 28)
    ELSE IF m \in {4, 6, 9, 11} THEN 30 ELSE 31

\* datetime(year, month, day) raises ValueError unless this holds.
ValidDate(y, m, d) == y \in 1..9999 /\ m \in 1..12 /\ d \in 1..DaysInMonth(y, m)

RECURSIVE DaysBeforeMonth(_, _)
DaysBeforeMonth(y, m) ==
    IF m = 1 THEN 0 ELSE DaysBeforeMonth(y, m - 1) + DaysInMonth(y, m - 1)

\* date.toordinal()
ToOrdinal(date) ==
    Only({y * 365 + (y \div 4) - (y \div 100) + (y \div 400)
        + DaysBeforeMonth(date[1], date[2]) + date[3]
          : y \in {date[1] - 1}})

\* date.weekday(): Monday is 0.
Weekday(date) == (ToOrdinal(date) + 6) % 7

\* date + timedelta(days=n)
RECURSIVE AddDays(_, _)
AddDays(date, n) ==
    IF n = 0 THEN date
    ELSE AddDays(IF date[3] < DaysInMonth(date[1], date[2])
                 THEN <<date[1], date[2], date[3] + 1>>
                 ELSE IF date[2] < 12 THEN <<date[1], date[2] + 1, 1>>
                 ELSE <<date[1] + 1, 1, 1>>,
                 n - 1)

\* date.strftime('%Y-%m-%d')
FormatDate(date) ==
    Digits(date[1], 4) \o <<45>> \o Digits(date[2], 2) \o <<45>> \o Digits(date[3], 2)

\* ARABIC_DAYS, in the order the dict is written (the loop returns on the first
\* name found in the text): <<name, weekday number>>.
ARABIC_DAYS ==
    << <<<<1575, 1604, 1587, 1576, 1578>> (* السبت *), 5>>, <<<<1575, 1604, 1575, 1581, 1583>> (* الاحد *), 6>>, <<<<1575, 1604, 1575, 1579, 1606, 1610, 1606>> (* الاثنين *), 0>>, <<<<1575, 1604, 1579, 1604, 1575, 1579, 1575, 1569>> (* الثلاثاء *), 1>>,
       <<<<1575, 1604, 1575, 1585, 1576, 1593, 1575, 1569>> (* الاربعاء *), 2>>, <<<<1575, 1604, 1582, 1605, 1610, 1587>> (* الخميس *), 3>>, <<<<1575, 1604, 1580, 1605, 1593, 1577>> (* الجمعة *), 4>>,
       <<<<1587, 1576, 1578>> (* سبت *), 5>>, <<<<1575, 1581, 1583>> (* احد *), 6>>, <<<<1575, 1579, 1606, 1610, 1606>> (* اثنين *), 0>>, <<<<1579, 1604, 1575, 1579, 1575, 1569>> (* ثلاثاء *), 1>>,
       <<<<1575, 1585, 1576, 1593, 1575, 1569>> (* اربعاء *), 2>>, <<<<1582, 1605, 1610, 1587>> (* خميس *), 3>>, <<<<1580, 1605, 1593, 1577>> (* جمعة *), 4>> >>

\* The three date patterns, in order; 0 stands for \d, any other number for
\* that character: (\d{4})-(\d{2})-(\d{2}), (\d{2})/(\d{2})/(\d{4}),
\* (\d{2})-(\d{2})-(\d{4}).
DATE_PATTERNS ==
    << <<0, 0, 0, 0, 45, 0, 0, 45, 0, 0>>,
       <<0, 0, 47, 0, 0, 47, 0, 0, 0, 0>>,
       <<0, 0, 45, 0, 0, 45, 0, 0, 0, 0>> >>

\* The pattern matches the text at offset i (0-based).
PatternAt(text, pat, i) ==
    /\ i + Len(pat) <= Len(text)
    /\ \A k \in 1..Len(pat) :
           IF pat[k] = 0 THEN IsDigit(text[i + k]) ELSE text[i + k] = pat[k]

\* int() of the digits text[a..b]
RECURSIVE IntOf(_, _, _)
IntOf(text, a, b) ==
    IF b < a THEN 0 ELSE IntOf(text, a, b - 1) * 10 + DigitValue(text[b])

\* re.search(pattern, text) and the datetime(...) built from its groups: the
\* date of the leftmost match, or None when there is no match or the date is
\* invalid (ValueError: the loop goes on to the next pattern).
DateOf(y, m, d) == IF ValidDate(y, m, d) THEN <<y, m, d>> ELSE None

PatternDate(text, n) ==
    Only({IF at = {} THEN None
        ELSE Only({DateOf(IF n = 1 THEN IntOf(text, i + 1, i + 4) ELSE IntOf(text, i + 7, i + 10),
                        IF n = 1 THEN IntOf(text, i + 6, i + 7) ELSE IntOf(text, i + 4, i + 5),
                        IF n = 1 THEN IntOf(text, i + 9, i + 10) ELSE IntOf(text, i + 1, i + 2))
                   : i \in {CHOOSE j \in at : \A k \in at : j <= k}})
          : at \in {{i \in 0..Len(text) : PatternAt(text, DATE_PATTERNS[n], i)}}})

\* parse_relative_date: the date, or None.
parse_relative_date(text) ==
    IF text = <<>> THEN None
    ELSE
    Only({Only({Only({IF contains(text_lower, <<1575, 1604, 1610, 1608, 1605>> (* اليوم *)) \/ contains(text_lower, <<1607, 1584, 1575, 32, 1575, 1604, 1610, 1608, 1605>> (* هذا اليوم *))
        THEN Today
        ELSE IF contains(text_lower, <<1576, 1603, 1585, 1575>> (* بكرا *)) \/ contains(text_lower, <<1576, 1603, 1585, 1577>> (* بكرة *))
        THEN (IF contains(text_lower, <<1576, 1593, 1583>> (* بعد *)) THEN AddDays(Today, 2) ELSE AddDays(Today, 1))
        ELSE IF contains(text_lower, <<1576, 1593, 1583, 32, 1576, 1603, 1585, 1575>> (* بعد بكرا *)) \/ contains(text_lower, <<1576, 1593, 1583, 32, 1576, 1603, 1585, 1577>> (* بعد بكرة *))
        THEN AddDays(Today, 2)
        ELSE IF days # {}
        THEN Only({AddDays(Today, IF ahead <= 0 THEN ahead + 7 ELSE ahead)
                   : ahead \in {ARABIC_DAYS[Least(days)][2] - Weekday(Today)}})
        ELSE IF pats # {}
        THEN PatternDate(text, Least(pats))
        ELSE None
          : pats \in {{n \in 1..Len(DATE_PATTERNS) : PatternDate(text, n) # None}}})
          : days \in {{k \in 1..Len(ARABIC_DAYS) : contains(text_lower, ARABIC_DAYS[k][1])}}})
          : text_lower \in {strip(lower(text))}})

\* ------------------------------------------------------------------------
\* core/formatter.py
\* ------------------------------------------------------------------------

\* a write that keeps nothing of what was collected before
Put_forgets(d, k, v) == [x \in {k} |-> v]

\* d[k] = v on a dict
Put(d, k, v) == [x \in (DOMAIN d) \cup {k} |-> IF x = k THEN v ELSE d[x]]

\* d.get(k, "")
Get(d, k) == IF k \in DOMAIN d THEN d[k] ELSE <<>>

format_booking_confirmation == <<9989, 32, 1578, 1605, 32, 1575, 1587, 1578, 1604, 1575, 1605, 32, 1591, 1604, 1576, 1603, 32, 1608, 1576, 1606, 1585, 1580, 1593, 32, 1604, 1603, 32, 1606, 1571, 1603, 1583, 32, 1575, 1604, 1605, 1608, 1593, 1583>> (* ✅ تم استلام طلبك وبنرجع لك نأكد الموعد *)

format_booking_question(state, data) ==
    IF state = "name" THEN <<1605, 1575, 32, 1575, 1587, 1605, 1603, 1567>> (* ما اسمك؟ *)
    ELSE IF state = "phone"
    THEN (IF Get(data, "name") # <<>>
          THEN <<1605, 1585, 1581, 1576, 1575, 1611, 32>> (* مرحباً  *) \o Get(data, "name") \o <<33, 32, 1605, 1575, 32, 1585, 1602, 1605, 32, 1580, 1608, 1575, 1604, 1603, 1567>> (* ! ما رقم جوالك؟ *)
          ELSE <<1605, 1575, 32, 1585, 1602, 1605, 32, 1580, 1608, 1575, 1604, 1603, 1567>> (* ما رقم جوالك؟ *))
    ELSE IF state = "service" THEN <<1571, 1610, 32, 1582, 1583, 1605, 1577, 32, 1578, 1576, 1610, 32, 1578, 1581, 1580, 1586, 1567>> (* أي خدمة تبي تحجز؟ *)
    ELSE IF state = "branch" THEN <<1571, 1610, 32, 1601, 1585, 1593, 32, 1578, 1601, 1590, 1604, 1567, 32, 40, 1571, 1608, 32, 1575, 1603, 1578, 1576, 32, 39, 1578, 1582, 1591, 1609, 39, 32, 1604, 1604, 1578, 1582, 1591, 1610, 41>> (* أي فرع تفضل؟ (أو اكتب 'تخطى' للتخطي) *)
    ELSE IF state = "date_time" THEN <<1605, 1578, 1609, 32, 1578, 1576, 1610, 32, 1575, 1604, 1605, 1608, 1593, 1583, 1567, 32, 40, 1571, 1608, 32, 1575, 1603, 1578, 1576, 32, 39, 1578, 1582, 1591, 1609, 39, 32, 1604, 1604, 1578, 1582, 1591, 1610, 41>> (* متى تبي الموعد؟ (أو اكتب 'تخطى' للتخطي) *)
    ELSE <<1588, 1603, 1585, 1575, 1611, 32, 1604, 1603, 33>> (* شكراً لك! *)

\* ------------------------------------------------------------------------
\* core/booking.py.  db is the record of the tables: [conversation_state,
\* booking_tickets, conversation_history].
\* ------------------------------------------------------------------------

STATES == <<"name", "phone", "service", "branch", "date_time", "done">>

\* The tokens that skip the optional branch and date_time steps.
SKIP_TOKENS == {<<1578, 1582, 1591, 1609>> (* تخطى *), <<115, 107, 105, 112>> (* skip *), <<1604, 1575>> (* لا *), <<>>}

\* The reply to an invalid phone number.
INVALID_PHONE_REPLY == <<9888, 65039, 32, 1575, 1604, 1585, 1602, 1605, 32, 1605, 1608, 32, 1589, 1581, 1610, 1581, 46, 32, 1580, 1585, 1576, 32, 1605, 1585, 1577, 32, 1579, 1575, 1606, 1610, 1577, 32, 40, 1605, 1579, 1575, 1604, 58, 32, 48, 53, 48, 49, 50, 51, 52, 53, 54, 55, 41>> (* ⚠️ الرقم مو صحيح. جرب مرة ثانية (مثال: 0501234567) *)

\* a WHERE clause that forgets the platform
StateFilter_user_only(row, user_id, platform) == row.user_id = user_id

\* The WHERE clause of get_state.
StateFilter(row, user_id, platform) ==
    row.user_id = user_id /\ row.platform = platform

\* get_state: query(ConversationState).filter(...).first(), as the set holding
\* the row found (empty for None).
get_state(cs, user_id, platform) ==
    Only({IF rows = {} THEN {} ELSE {CHOOSE r \in rows : TRUE}
          : rows \in {{r \in cs : StateFilter(r, user_id, platform)}}})

\* a set_state that always inserts
set_state_inserts(cs, user_id, platform, state, data) ==
    cs \cup {[user_id |-> user_id, platform |-> platform, state |-> state, data |-> data]}

\* set_state: update the row found in place, or insert a new row.
set_state(cs, user_id, platform, state, data) ==
    Only({IF found # {}
        THEN (cs \ found) \cup {[r EXCEPT !.state = state, !.data = data] : r \in found}
        ELSE cs \cup {[user_id |-> user_id, platform |-> platform,
                       state |-> state, data |-> data]}
          : found \in {get_state(cs, user_id, platform)}})

\* a clear_state that deletes nothing
clear_state_keeps(cs, user_id, platform) == cs

\* clear_state: delete the row found; returns the table.
clear_state(cs, user_id, platform) == cs \ get_state(cs, user_id, platform)

\* The ticket payload built by _complete_booking.  now is utcnow() in whole
\* seconds of the model's clock; booking_id is f"BD-{now:%Y%m%d%H%M%S}-{user_id[:6]}".
TicketData(user_id, platform, data, now) ==
    [booking_id        |-> <<66, 68, 45>> (* BD- *) \o Digits(now, 14) \o <<45>>
                           \o SubSeq(user_id, 1, IF Len(user_id) < 6 THEN Len(user_id) ELSE 6),
     user_id           |-> user_id,
     platform          |-> platform,
     patient_name      |-> Get(data, "name"),
     patient_phone     |-> Get(data, "phone"),
     service_requested |-> Get(data, "service"),
     doctor_name       |-> Get(data, "doctor_name"),
     preferred_branch  |-> Get(data, "branch"),
     preferred_date    |-> Get(data, "date"),
     preferred_time    |-> Get(data, "time"),
     status            |-> "pending",
     created_at        |-> now,
     notes             |-> <<1581, 1580, 1586, 32, 1580, 1583, 1610, 1583, 32, 1605, 1606, 32>> (* حجز جديد من  *) \o platform]

\* a _complete_booking that writes the state done instead of deleting the row
_complete_booking_done(db, user_id, platform, data, now) ==
    [db |-> [db EXCEPT
                !.booking_tickets = Append(@, [user_id  |-> user_id,
                                               platform |-> platform,
                                               payload  |-> TicketData(user_id, platform, data, now),
                                               status   |-> "pending"]),
                !.conversation_state = set_state(@, user_id, platform, "done", data)],
     response    |-> format_booking_confirmation,
     is_complete |-> TRUE]

\* a _complete_booking that stores the ticket twice
_complete_booking_twice(db, user_id, platform, data, now) ==
    Only({[db |-> [db EXCEPT !.booking_tickets = Append(Append(@, row), row),
                           !.conversation_state = clear_state(@, user_id, platform)],
         response    |-> format_booking_confirmation,
         is_complete |-> TRUE]
          : row \in {[user_id  |-> user_id, platform |-> platform,
         payload  |-> TicketData(user_id, platform, data, now),
         status   |-> "pending"]}})

\* _complete_booking: add the ticket, (the sync call has no effect on the
\* tables: its failure is caught and logged), delete the state row.
_complete_booking(db, user_id, platform, data, now) ==
    [db |-> [db EXCEPT
                !.booking_tickets = Append(@, [user_id  |-> user_id,
                                               platform |-> platform,
                                               payload  |-> TicketData(user_id, platform, data, now),
                                               status   |-> "pending"]),
                !.conversation_state = clear_state(@, user_id, platform)],
     response    |-> format_booking_confirmation,
     is_complete |-> TRUE]

\* a step that writes date_time whatever state comes next
Step_skips(db, user_id, platform, state, data) ==
    [db |-> [db EXCEPT !.conversation_state =
                           set_state(db.conversation_state, user_id, platform, "date_time", data)],
     response    |-> format_booking_question("date_time", data),
     is_complete |-> FALSE]

\* The result of a step that only moves the state row.
Step(db, user_id, platform, state, data) ==
    [db |-> [db EXCEPT !.conversation_state =
                           set_state(db.conversation_state, user_id, platform, state, data)],
     response    |-> format_booking_question(state, data),
     is_complete |-> FALSE]

\* a phone step that takes whatever it is given
phone_step_advances(db, user_id, platform, collected_data, message) ==
    Step(db, user_id, platform, "service", Put(collected_data, "phone", strip(message)))

\* lines 73-80 of process_message: the step of state phone
phone_step(db, user_id, platform, collected_data, message) ==
    Only({IF normalized = None
        THEN [db |-> db, response |-> INVALID_PHONE_REPLY, is_complete |-> FALSE]
        ELSE Step(db, user_id, platform, "service", Put(collected_data, "phone", normalized))
          : normalized \in {normalize_phone(message)}})

\* process_message: [db, response, is_complete]
process_message(db, user_id, platform, message, now) ==
    Only({IF found = {} THEN Step(db, user_id, platform, "name", <<>>)
        ELSE
        Only({Only({Only({IF current_state = "name"
            THEN Step(db, user_id, platform, "phone",
                      Put(collected_data, "name", strip(message)))
            ELSE IF current_state = "phone"
            THEN phone_step(db, user_id, platform, collected_data, message)
            ELSE IF current_state = "service"
            THEN Step(db, user_id, platform, "branch",
                      Put(collected_data, "service",
                          IF Get(collected_data, "service") # <<>>
                          THEN Get(collected_data, "service")
                          ELSE strip(message)))
            ELSE IF current_state = "branch"
            THEN Step(db, user_id, platform, "date_time",
                      IF lower(strip(message)) \notin SKIP_TOKENS
                      THEN Put(collected_data, "branch", strip(message))
                      ELSE collected_data)
            ELSE IF current_state = "date_time"
            THEN _complete_booking(db, user_id, platform,
                     IF lower(strip(message)) \notin SKIP_TOKENS
                     THEN Put(Put(collected_data, "date",
                                  Only({IF parsed_date # None THEN FormatDate(parsed_date)
                                      ELSE strip(message)
                                        : parsed_date \in {parse_relative_date(message)}})),
                              "time", strip(message))
                     ELSE collected_data,
                     now)
            ELSE [db |-> db, response |-> <<1588, 1603, 1585, 1575, 1611, 32, 1604, 1603, 33>> (* شكراً لك! *), is_complete |-> TRUE]
              : collected_data \in {current_state_obj.data}})
              : current_state \in {current_state_obj.state}})
              : current_state_obj \in {CHOOSE r \in found : TRUE}})
          : found \in {get_state(db.conversation_state, user_id, platform)}})

\* the ways the external endpoint would answer the sync call
SYNC_OUTCOMES == {"success", "http_error", "exception", "timeout"}

\* _send_to_google_apps_script: the exception that leaves it, "" for none.
\* The name google_apps_script_url it tests on line 166 is a local of
\* _complete_booking, not a global: the test raises NameError before the
\* request is made, whatever the endpoint would answer.
_send_to_google_apps_script(outcome) == "NameError"

\* a sync block without its except clause
sync_block_unguarded(configured, outcome) ==
    IF configured THEN _send_to_google_apps_script(outcome) ELSE ""

\* Lines 146-154 of _complete_booking: the exception that leaves the block,
\* "" for none.  The call is made when GOOGLE_APPS_SCRIPT_URL is set, and
\* every Exception it raises is caught and logged.
sync_block(configured, outcome) ==
    IF ~configured THEN ""
    ELSE IF _send_to_google_apps_script(outcome) # "" THEN ""
    ELSE ""

\* process_message with the sync call of _complete_booking spelled out:
\* [raised, db, response, is_complete].  An exception leaving the sync
\* block would leave process_message after the ticket was committed and
\* before the state row is deleted.
process_message_sync(db, user_id, platform, message, now, configured, outcome) ==
    Only({IF step.db.booking_tickets # db.booking_tickets
             /\ sync_block(configured, outcome) # ""
          THEN [raised |-> TRUE, db |-> [db EXCEPT !.booking_tickets = step.db.booking_tickets],
                response |-> None, is_complete |-> FALSE]
          ELSE [raised |-> FALSE, db |-> step.db, response |-> step.response,
                is_complete |-> step.is_complete]
          : step \in {process_message(db, user_id, platform, message, now)}})

\* ------------------------------------------------------------------------
\* utils/arabic_normalizer.py
\* ------------------------------------------------------------------------

\* The character-by-character part of normalize_ar: the replace() chain and
\* the digit translation.
FoldChar(c) ==
    IF c \in {1571, 1573, 1570} THEN 1575        \* alef with hamza or madda -> alef
    ELSE IF c = 1609 THEN 1610                    \* alef maqsura -> yeh
    ELSE IF c = 1572 THEN 1608                    \* waw with hamza -> waw
    ELSE IF c = 1574 THEN 1610                    \* yeh with hamza -> yeh
    ELSE IF c \in 1632..1641 THEN c - 1584        \* Arabic-Indic digit -> ASCII digit
    ELSE c

\* normalize_ar: strip and lower first, then drop tatweel (U+0640) and the
\* diacritics U+0617-061A, U+064B-0652, then fold the letters and digits.
normalize_ar(s) ==
    IF s = <<>> THEN <<>>
    ELSE Only({[i \in 1..Len(kept) |-> FoldChar(kept[i])]
               : kept \in {SelectSeq(lower(strip(s)),
                       LAMBDA c : c # 1600 /\ c \notin 1559..1562 /\ c \notin 1611..1618)}})

\* ------------------------------------------------------------------------
\* utils/entity_extractor.py.  An entity is [type, value, confidence], the
\* confidence in hundredths.
\* ------------------------------------------------------------------------

\* The regular-expression class \w on str, for ASCII and the Arabic block
\* (every other character of the model's texts is a symbol or an emoji).
IsWord(c) ==
    \/ c \in 48..57 \/ c \in 65..90 \/ c = 95 \/ c \in 97..122
    \/ c \in 1568..1610 \/ c \in 1632..1641 \/ c \in 1646..1647
    \/ c \in 1649..1747 \/ c = 1749 \/ c \in 1765..1766 \/ c \in 1774..1788 \/ c = 1791

\* \b between text[i] and text[i + 1] (i = 0 is the start, i = Len the end).
WordBoundary(text, i) ==
    (i > 0 /\ IsWord(text[i])) # (i < Len(text) /\ IsWord(text[i + 1]))

\* pre occurs in text right after offset i.
LiteralAt(text, i, pre) ==
    i + Len(pre) <= Len(text) /\ SubSeq(text, i + 1, i + Len(pre)) = pre

\* PHONE_RE = (?:\+?966|0)?5\d{8}\b : the prefixes in the order the regular
\* expression tries them.
PHONE_PREFIXES == <<<<43, 57, 54, 54>> (* +966 *), <<57, 54, 54>> (* 966 *), <<48>> (* 0 *), <<>>>>

PhoneAt(text, i, pre) ==
    /\ LiteralAt(text, i, pre)
    /\ i + Len(pre) + 9 <= Len(text)
    /\ text[i + Len(pre) + 1] = 53
    /\ \A k \in 2..9 : IsDigit(text[i + Len(pre) + k])
    /\ WordBoundary(text, i + Len(pre) + 9)

\* PHONE_RE.search(text): the text matched, or None.
PhoneSearch(text) ==
    Only({IF hits = {} THEN None
            ELSE Only({Only({SubSeq(text, i + 1, i + Len(PHONE_PREFIXES[k]) + 9)
                       : k \in {Least({j \in 1..4 : PhoneAt(text, i, PHONE_PREFIXES[j])})}})
                       : i \in {Least(hits)}})
          : hits \in {{i \in 0..Len(text) : \E k \in 1..4 : PhoneAt(text, i, PHONE_PREFIXES[k])}}})

\* TIME_RE = \b([01]?\d|2[0-3])[:\.]([0-5]\d)\b : the hour is h characters long.
TimeAt(text, i, h) ==
    /\ WordBoundary(text, i)
    /\ i + h + 3 <= Len(text)
    /\ \/ h = 2 /\ text[i + 1] \in {48, 49} /\ IsDigit(text[i + 2])
       \/ h = 1 /\ IsDigit(text[i + 1])
       \/ h = 2 /\ text[i + 1] = 50 /\ text[i + 2] \in 48..51
    /\ text[i + h + 1] \in {58, 46}
    /\ text[i + h + 2] \in 48..53
    /\ IsDigit(text[i + h + 3])
    /\ WordBoundary(text, i + h + 3)

\* TIME_RE.search(text) and the value built from its groups, f"{hour:02d}:{minute}",
\* or None.  At one offset the regular expression tries [01]\d, then \d, then 2[0-3].
TimeSearch(text) ==
    Only({IF hits = {} THEN None
            ELSE Only({Only({Digits(IntOf(text, i + 1, i + h), 2) \o <<58>>
                     \o SubSeq(text, i + h + 2, i + h + 3)
                       : h \in {IF TimeAt(text, i, 2) /\ text[i + 1] \in {48, 49} THEN 2
                     ELSE IF TimeAt(text, i, 1) THEN 1 ELSE 2}})
                       : i \in {Least(hits)}})
          : hits \in {{i \in 0..Len(text) : TimeAt(text, i, 1) \/ TimeAt(text, i, 2)}}})

\* DATE_RE = \b(...)\b : the alternatives in order.
DATE_WORDS ==
    <<<<1575, 1604, 1610, 1608, 1605>> (* اليوم *), <<1576, 1603, 1585, 1575>> (* بكرا *), <<1576, 1593, 1583, 32, 1576, 1603, 1585, 1575>> (* بعد بكرا *), <<1575, 1604, 1587, 1576, 1578>> (* السبت *), <<1575, 1604, 1571, 1581, 1583>> (* الأحد *), <<1575, 1604, 1575, 1579, 1606, 1610, 1606>> (* الاثنين *),
      <<1575, 1604, 1579, 1604, 1575, 1579, 1575, 1569>> (* الثلاثاء *), <<1575, 1604, 1571, 1585, 1576, 1593, 1575, 1569>> (* الأربعاء *), <<1575, 1604, 1582, 1605, 1610, 1587>> (* الخميس *), <<1575, 1604, 1580, 1605, 1593, 1577>> (* الجمعة *)>>

DateAt(text, i, w) ==
    /\ WordBoundary(text, i)
    /\ LiteralAt(text, i, w)
    /\ WordBoundary(text, i + Len(w))

\* DATE_RE.search(text): the word matched, or None.
DateSearch(text) ==
    Only({IF hits = {} THEN None
            ELSE Only({DATE_WORDS[Least({k \in 1..Len(DATE_WORDS) :
                                          DateAt(text, i, DATE_WORDS[k])})]
                       : i \in {Least(hits)}})
          : hits \in {{i \in 0..Len(text) : \E k \in 1..Len(DATE_WORDS) : DateAt(text, i, DATE_WORDS[k])}}})

\* The phone entity's value: the match with its country code replaced.
PhoneValue(m) ==
    IF startswith(m, <<57, 54, 54>> (* 966 *)) THEN <<48>> \o SubSeq(m, 4, Len(m))
    ELSE IF startswith(m, <<43, 57, 54, 54>> (* +966 *)) THEN <<48>> \o SubSeq(m, 5, Len(m))
    ELSE IF ~startswith(m, <<48>>) THEN <<48>> \o m
    ELSE m

Entity(type, value, confidence) ==
    [type |-> type, value |-> value, confidence |-> confidence]

\* quick_extract_entities: at most one phone, one time and one date, in this order.
quick_extract_entities(msg) ==
    IF msg = <<>> THEN <<>>
    ELSE Only({Only({Only({Only({(IF phone # None THEN <<Entity("phone", PhoneValue(phone), 95)>> ELSE <<>>)
             \o (IF time # None THEN <<Entity("time", time, 90)>> ELSE <<>>)
             \o (IF date # None THEN <<Entity("date", date, 85)>> ELSE <<>>)
               : date \in {DateSearch(normalized)}})
               : time \in {TimeSearch(normalized)}})
               : phone \in {PhoneSearch(normalized)}})
               : normalized \in {normalize_ar(msg)}})

\* The types of a list of entities.
Types(entities) == {entities[i].type : i \in 1..Len(entities)}

\* a merge that appends every extracted entity
merge_entities_all(llm_entities, extracted_entities) == llm_entities \o extracted_entities

\* merge_entities: the model's entities, then the extracted ones whose type
\* the model's do not have.
merge_entities(llm_entities, extracted_entities) ==
    llm_entities \o SelectSeq(extracted_entities,
                              LAMBDA e : e.type \notin Types(llm_entities))

\* ------------------------------------------------------------------------
\* core/intent.py: the keyword tables
\* ------------------------------------------------------------------------

SIMPLE_GREETINGS == {<<1607, 1604, 1575>> (* هلا *), <<1575, 1607, 1604, 1575>> (* اهلا *), <<1571, 1607, 1604, 1575>> (* أهلا *), <<1575, 1607, 1604, 1575, 1611>> (* اهلاً *), <<1571, 1607, 1604, 1575, 1611>> (* أهلاً *), <<1605, 1585, 1581, 1576, 1575>> (* مرحبا *), <<1607, 1575, 1610>> (* هاي *), <<1607, 1604, 1575, 1611>> (* هلاً *)}

GREETING_HINTS ==
    {<<1575, 1604, 1587, 1604, 1575, 1605, 32, 1593, 1604, 1610, 1603, 1605>> (* السلام عليكم *), <<1608, 1593, 1604, 1610, 1603, 1605, 32, 1575, 1604, 1587, 1604, 1575, 1605>> (* وعليكم السلام *), <<1588, 1604, 1608, 1606, 1603>> (* شلونك *), <<1603, 1610, 1601, 1603>> (* كيفك *), <<1607, 1604, 1575>> (* هلا *), <<1575, 1607, 1604, 1575>> (* اهلا *),
     <<1605, 1585, 1581, 1576, 1575>> (* مرحبا *), <<1607, 1575, 1610>> (* هاي *), <<1575, 1604, 1587, 1604, 1575, 1605>> (* السلام *)}

THANKS_HINTS ==
    {<<1588, 1603, 1585, 1575>> (* شكرا *), <<1588, 1603, 1585, 1575, 1611>> (* شكراً *), <<1588, 1603, 1585>> (* شكر *), <<1605, 1588, 1603, 1608, 1585>> (* مشكور *), <<1605, 1588, 1603, 1608, 1585, 1577>> (* مشكورة *), <<1610, 1593, 1591, 1610, 1603>> (* يعطيك *), <<1575, 1604, 1604, 1607, 32, 1610, 1593, 1591, 1610, 1603>> (* الله يعطيك *),
     <<1578, 1587, 1604, 1605>> (* تسلم *), <<1578, 1587, 1604, 1605, 1610, 1606>> (* تسلمين *), <<1578, 1605, 1575, 1605>> (* تمام *), <<1576, 1610, 1590, 32, 1575, 1604, 1604, 1607, 32, 1608, 1580, 1607, 1603>> (* بيض الله وجهك *)}

GOODBYE_HINTS ==
    {<<1605, 1593, 32, 1575, 1604, 1587, 1604, 1575, 1605, 1577>> (* مع السلامة *), <<1576, 1575, 1610>> (* باي *), <<1608, 1583, 1575, 1593>> (* وداع *), <<1575, 1604, 1604, 1607, 32, 1610, 1608, 1601, 1602, 1603>> (* الله يوفقك *), <<1610, 1604, 1575, 32, 1587, 1604, 1575, 1605>> (* يلا سلام *), <<1606, 1588, 1608, 1601, 1603>> (* نشوفك *), <<1601, 1610, 32, 1575, 1605, 1575, 1606, 32, 1575, 1604, 1604, 1607>> (* في امان الله *)}

HOURS_HINTS ==
    {<<1605, 1578, 1609, 32, 1578, 1601, 1578, 1581>> (* متى تفتح *), <<1605, 1578, 1609, 32, 1578, 1601, 1578, 1581, 1608, 1606>> (* متى تفتحون *), <<1575, 1608, 1602, 1575, 1578, 32, 1575, 1604, 1583, 1608, 1575, 1605>> (* اوقات الدوام *), <<1575, 1608, 1602, 1575, 1578, 32, 1575, 1604, 1593, 1605, 1604>> (* اوقات العمل *), <<1605, 1578, 1609, 32, 1575, 1604, 1583, 1608, 1575, 1605>> (* متى الدوام *),
     <<1587, 1575, 1593, 1575, 1578, 32, 1575, 1604, 1593, 1605, 1604>> (* ساعات العمل *), <<1605, 1578, 1609, 32, 1578, 1601, 1578, 1581, 32, 1575, 1604, 1601, 1585, 1608, 1593>> (* متى تفتح الفروع *), <<1605, 1578, 1609, 32, 1575, 1604, 1601, 1585, 1608, 1593, 32, 1578, 1601, 1578, 1581>> (* متى الفروع تفتح *), <<1575, 1608, 1602, 1575, 1578, 32, 1575, 1604, 1601, 1585, 1608, 1593>> (* اوقات الفروع *), <<1583, 1608, 1575, 1605, 1603, 1605>> (* دوامكم *)}

BRANCH_HINTS ==
    {<<1608, 1610, 1606>> (* وين *), <<1575, 1604, 1605, 1608, 1602, 1593>> (* الموقع *), <<1605, 1608, 1602, 1593>> (* موقع *), <<1593, 1606, 1608, 1575, 1606>> (* عنوان *), <<1601, 1585, 1608, 1593>> (* فروع *), <<1601, 1585, 1593>> (* فرع *), <<1605, 1603, 1575, 1606, 1603, 1605>> (* مكانكم *), <<1604, 1608, 1603, 1610, 1588, 1606>> (* لوكيشن *), <<1604, 1608, 1603, 1610, 1588, 1606, 1603, 1605>> (* لوكيشنكم *)}

SERVICE_HINTS ==
    {<<1582, 1583, 1605, 1577>> (* خدمة *), <<1582, 1583, 1605, 1575, 1578>> (* خدمات *), <<1587, 1593, 1585>> (* سعر *), <<1575, 1587, 1593, 1575, 1585>> (* اسعار *), <<1603, 1605, 32, 1587, 1593, 1585>> (* كم سعر *), <<1578, 1603, 1604, 1601, 1577>> (* تكلفة *), <<1576, 1603, 1605>> (* بكم *), <<1603, 1605, 32, 1578, 1603, 1604, 1601>> (* كم تكلف *),
     <<1605, 1583, 1577>> (* مدة *), <<1603, 1605, 32, 1583, 1602, 1610, 1602, 1577>> (* كم دقيقة *)}

BOOKING_WORDS ==
    {<<1581, 1580, 1586>> (* حجز *), <<1575, 1581, 1580, 1586>> (* احجز *), <<1605, 1608, 1593, 1583>> (* موعد *), <<1575, 1576, 1610, 32, 1575, 1581, 1580, 1586>> (* ابي احجز *), <<1571, 1576, 1610, 32, 1575, 1581, 1580, 1586>> (* أبي احجز *), <<1575, 1576, 1594, 1609, 32, 1575, 1581, 1580, 1586>> (* ابغى احجز *), <<1571, 1576, 1594, 1609, 32, 1575, 1581, 1580, 1586>> (* أبغى احجز *),
     <<1575, 1576, 1610, 32, 1605, 1608, 1593, 1583>> (* ابي موعد *), <<1571, 1576, 1610, 32, 1605, 1608, 1593, 1583>> (* أبي موعد *), <<1575, 1576, 1594, 1609, 32, 1605, 1608, 1593, 1583>> (* ابغى موعد *)}

BOOKING_STRICT ==
    {<<1575, 1576, 1610, 32, 1575, 1581, 1580, 1586>> (* ابي احجز *), <<1571, 1576, 1610, 32, 1575, 1581, 1580, 1586>> (* أبي احجز *), <<1575, 1576, 1594, 1609, 32, 1575, 1581, 1580, 1586>> (* ابغى احجز *), <<1571, 1576, 1594, 1609, 32, 1575, 1581, 1580, 1586>> (* أبغى احجز *), <<1575, 1576, 1610, 32, 1605, 1608, 1593, 1583>> (* ابي موعد *), <<1571, 1576, 1610, 32, 1605, 1608, 1593, 1583>> (* أبي موعد *),
     <<1575, 1576, 1594, 1609, 32, 1605, 1608, 1593, 1583>> (* ابغى موعد *), <<1571, 1576, 1594, 1609, 32, 1605, 1608, 1593, 1583>> (* أبغى موعد *)}

GENERAL_HINTS ==
    {<<1575, 1587, 1578, 1601, 1587, 1575, 1585>> (* استفسار *), <<1587, 1572, 1575, 1604>> (* سؤال *), <<1593, 1606, 1583, 1610, 32, 1587, 1572, 1575, 1604>> (* عندي سؤال *), <<1593, 1606, 1583, 1610, 32, 1575, 1587, 1578, 1601, 1587, 1575, 1585>> (* عندي استفسار *), <<1605, 1606, 32, 1575, 1606, 1578>> (* من انت *), <<1605, 1610, 1606, 32, 1575, 1606, 1578>> (* مين انت *),
     <<1605, 1575, 32, 1575, 1587, 1605, 1603>> (* ما اسمك *), <<1575, 1587, 1605, 1603>> (* اسمك *), <<1603, 1610, 1601, 32, 1575, 1581, 1580, 1586>> (* كيف احجز *), <<1588, 1604, 1608, 1606, 32, 1575, 1581, 1580, 1586>> (* شلون احجز *), <<1591, 1585, 1610, 1602, 1577, 32, 1575, 1604, 1581, 1580, 1586>> (* طريقة الحجز *)}

WANT_VERBS ==
    {<<1575, 1576, 1610>> (* ابي *), <<1571, 1576, 1610>> (* أبي *), <<1575, 1576, 1594, 1609>> (* ابغى *), <<1571, 1576, 1594, 1609>> (* أبغى *), <<1575, 1585, 1610, 1583>> (* اريد *), <<1571, 1585, 1610, 1583>> (* أريد *), <<1575, 1581, 1578, 1575, 1580>> (* احتاج *), <<1571, 1581, 1578, 1575, 1580>> (* أحتاج *),
     <<1583, 1604, 1606, 1610>> (* دلني *), <<1585, 1588, 1581>> (* رشح *), <<1575, 1602, 1578, 1585, 1581>> (* اقترح *)}

SPECIALTY_KEYS == {<<1575, 1587, 1606, 1575, 1606>> (* اسنان *), <<1580, 1604, 1583, 1610, 1577>> (* جلدية *), <<1575, 1591, 1601, 1575, 1604>> (* اطفال *), <<1593, 1592, 1575, 1605>> (* عظام *), <<1606, 1587, 1575, 1569>> (* نساء *), <<1608, 1604, 1575, 1583, 1577>> (* ولادة *), <<1576, 1575, 1591, 1606, 1610, 1577>> (* باطنية *)}

DOCTOR_LIST_HINTS ==
    {<<1605, 1610, 1606, 32, 1575, 1604, 1575, 1591, 1576, 1575, 1569>> (* مين الاطباء *), <<1605, 1610, 1606, 32, 1571, 1591, 1576, 1575, 1569>> (* مين أطباء *), <<1602, 1575, 1574, 1605, 1577, 32, 1575, 1604, 1575, 1591, 1576, 1575, 1569>> (* قائمة الاطباء *), <<1602, 1575, 1574, 1605, 1577, 32, 1575, 1604, 1571, 1591, 1576, 1575, 1569>> (* قائمة الأطباء *), <<1575, 1587, 1605, 1575, 1569, 32, 1575, 1604, 1575, 1591, 1576, 1575, 1569>> (* اسماء الاطباء *),
     <<1571, 1587, 1605, 1575, 1569, 32, 1575, 1604, 1571, 1591, 1576, 1575, 1569>> (* أسماء الأطباء *), <<1605, 1610, 1606, 32, 1575, 1604, 1583, 1603, 1575, 1578, 1585, 1607>> (* مين الدكاتره *), <<1605, 1610, 1606, 32, 1575, 1604, 1583, 1603, 1575, 1578, 1585, 1577>> (* مين الدكاترة *)}

BEST_DOCTOR_HINTS == {<<1605, 1610, 1606, 32, 1575, 1581, 1587, 1606>> (* مين احسن *), <<1605, 1610, 1606, 32, 1571, 1601, 1590, 1604>> (* مين أفضل *), <<1605, 1610, 1606, 32, 1575, 1601, 1590, 1604>> (* مين افضل *), <<1575, 1601, 1590, 1604>> (* افضل *), <<1571, 1581, 1587, 1606>> (* أحسن *), <<1575, 1581, 1587, 1606>> (* احسن *)}

\* the words of the "best doctor" rule and of the "I want a doctor" rule
BEST_DOCTOR_WORDS == {<<1591, 1576, 1610, 1576>> (* طبيب *), <<1583, 1603, 1578, 1608, 1585>> (* دكتور *), <<1583, 1603, 1578, 1608, 1585, 1577>> (* دكتورة *), <<1583, 1603, 1575, 1578, 1585, 1607>> (* دكاتره *), <<1583, 1603, 1575, 1578, 1585, 1577>> (* دكاترة *)}

WANT_DOCTOR_WORDS == {<<1591, 1576, 1610, 1576>> (* طبيب *), <<1583, 1603, 1578, 1608, 1585>> (* دكتور *), <<1583, 1603, 1578, 1608, 1585, 1577>> (* دكتورة *)}

\* the triggers of _extract_name_hint and of _maybe_add_doctor_name
NAME_TRIGGERS == {<<1583, 1603, 1578, 1608, 1585>> (* دكتور *), <<1583, 1603, 1578, 1608, 1585, 1607>> (* دكتوره *), <<1583, 1603, 1578, 1608, 1585, 1577>> (* دكتورة *), <<1583>> (* د *), <<1583, 46>> (* د. *), <<1605, 1593>> (* مع *), <<1593, 1606, 1583>> (* عند *)}

DOCTOR_TRIGGERS == {<<1583, 1603, 1578, 1608, 1585>> (* دكتور *), <<1583, 1603, 1578, 1608, 1585, 1577>> (* دكتورة *), <<1593, 1606, 1583>> (* عند *), <<1605, 1593>> (* مع *)}

\* the entity types that make a booking request start a booking
BOOKING_KEY_TYPES == {"doctor_name", "service_name", "date", "time"}

\* _clean_key: strip, then drop every character that is neither \w nor in
\* U+0600-U+06FF.
_clean_key(s) == SelectSeq(strip(s), LAMBDA c : IsWord(c) \/ c \in 1536..1791)

\* str.split(): the maximal runs of non-space characters, in order.
split(s) ==
    Only({[k \in 1..Cardinality(starts) |->
            Only({SubSeq(s, i, CHOOSE e \in i..Len(s) :
                                 /\ \A j \in i..e : ~IsSpace(s[j])
                                 /\ e = Len(s) \/ IsSpace(s[e + 1]))
                  : i \in {CHOOSE i \in starts : Cardinality({j \in starts : j < i}) = k - 1}})]
          : starts \in {{i \in 1..Len(s) : ~IsSpace(s[i]) /\ (i = 1 \/ IsSpace(s[i - 1]))}}})

\* sep.join(parts)
RECURSIVE join(_, _)
join(parts, sep) ==
    IF parts = <<>> THEN <<>>
    ELSE IF Len(parts) = 1 THEN parts[1]
    ELSE parts[1] \o sep \o join(Tail(parts), sep)

\* _extract_name_hint: the three tokens after the first trigger that has a
\* token after it, or the whole text.
_extract_name_hint(msg_norm) ==
    Only({Only({IF at = {} THEN msg_norm
            ELSE Only({join(SubSeq(tokens, i + 1,
                                 IF i + 3 <= Len(tokens) THEN i + 3 ELSE Len(tokens)),
                          <<32>>)
                       : i \in {Least(at)}})
          : at \in {{i \in 1..Len(tokens) : tokens[i] \in NAME_TRIGGERS /\ i + 1 <= Len(tokens)}}})
          : tokens \in {split(msg_norm)}})

\* rapidfuzz's process.extractOne(query, choices, score_cutoff): the index of
\* the choice returned, 0 for None.  The score is rapidfuzz's; what the model
\* keeps of it: a choice equal to the query scores 100 and wins (the first
\* one), a choice that shares no character with the query scores 0 and is
\* never returned, and any other choice may or may not pass the cutoff.
extractOne(query, choices) ==
    Only({IF equal # {} THEN {Least(equal)}
        ELSE {0} \cup {i \in 1..Len(choices) : Range(choices[i]) \cap Range(query) # {}}
          : equal \in {{i \in 1..Len(choices) : choices[i] = query}}})

\* ------------------------------------------------------------------------
\* core/intent.py: IntentClassifier.  A result is the IntentSchema
\* [intent, entities, confidence, next_action], confidences in hundredths.
\* A TTLCache is the set of its entries [key, value, expires, order]; a key
\* is in the cache while the clock is before the entry's expiry, and order
\* is the place of the entry in the order of writing.
\* ------------------------------------------------------------------------

INTENT_CACHE_TTL == 300

\* TTLCache(maxsize=800, ttl=300), the size scaled down
INTENT_CACHE_MAXSIZE == 2

\* key in cache / cache[key]: the live entries of the key (none or one)
CacheGet(ttl_cache, key, now) == {e \in ttl_cache : e.key = key /\ now < e.expires}

\* a cache that stores nothing
CachePut_skips(ttl_cache, key, value, now, ttl, maxsize) ==
    {e \in ttl_cache : now < e.expires}

\* the entry written first among those of a cache: the head of its links
Oldest(entries) == CHOOSE e \in entries : \A f \in entries : e.order <= f.order

\* the place of the next entry written to a cache
NextOrder(entries) ==
    IF entries = {} THEN 1
    ELSE 1 + (CHOOSE n \in {e.order : e \in entries} : \A e \in entries : e.order <= n)

\* cache[key] = value: expired entries go; a key already there is replaced
\* and moved to the end; a new key in a full cache pushes the oldest entry out
CachePut(ttl_cache, key, value, now, ttl, maxsize) ==
    Only({Only({(IF others = live /\ Cardinality(live) >= maxsize
                 THEN others \ {Oldest(others)} ELSE others)
                    \cup {[key |-> key, value |-> value, expires |-> now + ttl,
                           order |-> NextOrder(live)]}
                : others \in {{e \in live : e.key # key}}})
          : live \in {{e \in ttl_cache : now < e.expires}}})

\* IntentClassifier._make
_make(intent, entities, confidence, next_action) ==
    [intent |-> intent, entities |-> entities, confidence |-> confidence,
     next_action |-> next_action]

\* any(e.get("type") in {"doctor_name", "service_name", "date", "time"} ...)
has_key(entities) == Types(entities) \cap BOOKING_KEY_TYPES # {}

\* booking_action() of classify, and the same test of the other two paths
booking_action(entities) ==
    IF has_key(entities) THEN "start_booking" ELSE "ask_clarification"

\* the doctor-list test, shared by the scorer and the reduced rule table
IsDoctorListQuery(msg_norm) ==
    \/ any_in(DOCTOR_LIST_HINTS, msg_norm)
    \/ /\ contains(msg_norm, <<1605, 1610, 1606>> (* مين *))
       /\ any_in({<<1575, 1591, 1576, 1575, 1569>> (* اطباء *), <<1583, 1603, 1575, 1578, 1585, 1607>> (* دكاتره *), <<1583, 1603, 1575, 1578, 1585, 1577>> (* دكاترة *)}, msg_norm)

\* the scores of classify
scores(msg_norm, msg_clean) ==
    [greeting |->
        (IF \/ msg_clean \in {_clean_key(x) : x \in SIMPLE_GREETINGS}
            \/ startswith(msg_clean, <<1607, 1604, 1575>> (* هلا *)) \/ startswith(msg_clean, <<1575, 1607, 1604, 1575>> (* اهلا *))
         THEN 12 ELSE 0)
        + (IF any_in(GREETING_HINTS, msg_norm) THEN 7 ELSE 0),
     thanks  |-> IF any_in(THANKS_HINTS, msg_norm) THEN 10 ELSE 0,
     goodbye |-> IF any_in(GOODBYE_HINTS, msg_norm) THEN 10 ELSE 0,
     booking |->
        IF any_in(BOOKING_WORDS, msg_norm)
        THEN 9 + (IF any_in(BOOKING_STRICT, msg_norm) THEN 2 ELSE 0)
        ELSE 0,
     hours   |-> IF any_in(HOURS_HINTS, msg_norm) THEN 9 ELSE 0,
     branch  |-> IF any_in(BRANCH_HINTS, msg_norm) THEN 7 ELSE 0,
     service |-> IF any_in(SERVICE_HINTS, msg_norm) THEN 6 ELSE 0,
     doctor  |->
        (IF IsDoctorListQuery(msg_norm) THEN 9 ELSE 0)
        + (IF /\ contains(msg_norm, <<1605, 1610, 1606>> (* مين *))
              /\ any_in(BEST_DOCTOR_HINTS, msg_norm)
              /\ any_in(BEST_DOCTOR_WORDS, msg_norm) \/ any_in(SPECIALTY_KEYS, msg_norm)
           THEN 8 ELSE 0)
        + (IF /\ any_in(WANT_VERBS, msg_norm)
              /\ any_in(SPECIALTY_KEYS, msg_norm) \/ any_in(WANT_DOCTOR_WORDS, msg_norm)
           THEN 7 ELSE 0),
     general |-> IF any_in(GENERAL_HINTS, msg_norm) THEN 8 ELSE 0]

\* _maybe_add_doctor_name: the entity lists it can return.  doctor_names is
\* the classifier's _doctor_names, loaded at construction.
_maybe_add_doctor_name(msg_norm, entities, doctor_names) ==
    IF "doctor_name" \in Types(entities) THEN {entities}
    ELSE IF ~any_in(DOCTOR_TRIGGERS, msg_norm) THEN {entities}
    ELSE IF doctor_names = <<>> THEN {entities}
    ELSE Only({{IF best = 0 THEN entities
                  ELSE Append(entities,
                              Entity("doctor_name",
                                     doctor_names[Least({i \in 1..Len(names_norm) :
                                                            names_norm[i] = names_norm[best]})],
                                     90))
                  : best \in extractOne(_extract_name_hint(msg_norm), names_norm)}
               : names_norm \in {[i \in 1..Len(doctor_names) |-> strip(lower(normalize_ar(doctor_names[i])))]}})

\* The rule-based part of classify, lines 225-344: the results it can return,
\* the empty set when no rule fires and the model is asked.
RuleResults(msg, doctor_names) ==
    Only({Only({Only({IF sc.greeting >= 10 THEN {_make("greeting", extracted, 98, "use_llm")}
        ELSE IF sc.thanks >= 10 THEN {_make("thanks", extracted, 97, "use_llm")}
        ELSE IF sc.goodbye >= 10 THEN {_make("goodbye", extracted, 97, "use_llm")}
        ELSE IF sc.booking >= 9
        THEN {_make("booking", extracted2, 92, booking_action(extracted))
              : extracted2 \in _maybe_add_doctor_name(msg_norm, extracted, doctor_names)}
        ELSE IF sc.hours >= 9 THEN {_make("hours", extracted, 92, "use_llm")}
        ELSE IF Len(split(msg_norm)) <= 2
        THEN IF sc.doctor >= 7 THEN {_make("doctor", extracted, 88, "use_llm")}
             ELSE IF sc.branch >= 6 THEN {_make("branch", extracted, 86, "use_llm")}
             ELSE IF sc.service >= 6 THEN {_make("service", extracted, 86, "use_llm")}
             ELSE {_make("general", extracted, 75, "use_llm")}
        ELSE IF sc.doctor >= 8 THEN {_make("doctor", extracted, 90, "use_llm")}
        ELSE IF sc.branch >= 7 /\ contains(msg_norm, <<1608, 1610, 1606>> (* وين *))
        THEN {_make("branch", extracted, 88, "use_llm")}
        ELSE IF sc.service >= 7 THEN {_make("service", extracted, 86, "use_llm")}
        ELSE IF sc.general >= 8 THEN {_make("general", extracted, 86, "use_llm")}
        ELSE {}
          : sc \in {scores(msg_norm, _clean_key(msg_norm))}})
          : extracted \in {quick_extract_entities(msg)}})
          : msg_norm \in {strip(lower(normalize_ar(msg)))}})

\* _fallback_classify: the reduced rule table
_fallback_classify(message, extracted, doctor_names) ==
    Only({IF \/ _clean_key(msg_norm) \in {_clean_key(x) : x \in SIMPLE_GREETINGS}
           \/ any_in(GREETING_HINTS, msg_norm)
        THEN {_make("greeting", extracted, 85, "use_llm")}
        ELSE IF any_in(THANKS_HINTS, msg_norm) THEN {_make("thanks", extracted, 85, "use_llm")}
        ELSE IF any_in(GOODBYE_HINTS, msg_norm) THEN {_make("goodbye", extracted, 85, "use_llm")}
        ELSE IF any_in(BOOKING_WORDS, msg_norm)
        THEN {_make("booking", extracted2, 80, booking_action(extracted2))
              : extracted2 \in _maybe_add_doctor_name(msg_norm, extracted, doctor_names)}
        ELSE IF any_in(HOURS_HINTS, msg_norm) THEN {_make("hours", extracted, 80, "use_llm")}
        ELSE IF IsDoctorListQuery(msg_norm) THEN {_make("doctor", extracted, 80, "use_llm")}
        ELSE IF any_in(BRANCH_HINTS, msg_norm) THEN {_make("branch", extracted, 75, "use_llm")}
        ELSE IF any_in(SERVICE_HINTS, msg_norm) THEN {_make("service", extracted, 75, "use_llm")}
        ELSE {_make("unclear", extracted, 50, "ask_clarification")}
          : msg_norm \in {strip(lower(normalize_ar(message)))}})

\* What the intent model can answer: [ok |-> FALSE] stands for every failure
\* the try block turns into the fallback before validation (the call raises,
\* the content is empty, is not JSON or is not an object); any other answer
\* is the parsed object [ok |-> TRUE, intent, entities, confidence,
\* next_action].  intent, next_action and the entity types are free strings
\* (IntentSchema declares them str); IntentSchema(**data) checks the numbers.
IsValidIntentData(data) ==
    /\ data.confidence \in 0..100
    /\ \A i \in 1..Len(data.entities) : data.entities[i].confidence \in 0..100

\* a classifier that passes a failure of the model on as a general question
ModelResults_general(msg, extracted, data, doctor_names) ==
    {_make("general", extracted, 50, "use_llm")}

\* Lines 349-391 of classify: the result for one answer of the model.
ModelResults(msg, extracted, data, doctor_names) ==
    IF ~data.ok THEN _fallback_classify(msg, extracted, doctor_names)
    ELSE IF ~IsValidIntentData(data) THEN _fallback_classify(msg, extracted, doctor_names)
    ELSE Only({{_make(data.intent, merged, data.confidence,
                    IF data.intent = "booking" THEN booking_action(merged)
                    ELSE data.next_action)}
               : merged \in {merge_entities(data.entities, extracted)}})

\* _cache and the return of classify: the result is stored under msg_norm
Stored(classifier, msg_norm, res, called, now) ==
    [result |-> res,
     _intent_cache |-> CachePut(classifier._intent_cache, msg_norm, res, now, INTENT_CACHE_TTL,
                                 INTENT_CACHE_MAXSIZE),
     model_called |-> called]

\* a classifier without the rules and the cache: the model is asked every time
classify_asks(classifier, message, now, model_answers) ==
    {Stored(classifier, strip(lower(normalize_ar(strip(message)))), res, TRUE, now)
     : res \in UNION {ModelResults(strip(message), quick_extract_entities(strip(message)),
                                   data, classifier._doctor_names)
                      : data \in model_answers}}

\* IntentClassifier.classify on a classifier [_intent_cache, _doctor_names]:
\* the outcomes [result, _intent_cache, model_called], one per answer the
\* model can give when it is asked.  The cache key is sha256 of msg_norm,
\* modelled by msg_norm itself.
classify(classifier, message, now, model_answers) ==
    Only({Only({Only({Only({IF msg = <<>>
        THEN {[result |-> _make("unclear", <<>>, 50, "ask_clarification"),
               _intent_cache |-> classifier._intent_cache, model_called |-> FALSE]}
        ELSE IF cached # {}
        THEN {[result |-> e.value, _intent_cache |-> classifier._intent_cache,
               model_called |-> FALSE] : e \in cached}
        ELSE IF rules # {}
        THEN {Stored(classifier, msg_norm, res, FALSE, now) : res \in rules}
        ELSE {Stored(classifier, msg_norm, res, TRUE, now)
              : res \in UNION {ModelResults(msg, quick_extract_entities(msg), data,
                                            classifier._doctor_names)
                               : data \in model_answers}}
          : rules \in {RuleResults(msg, classifier._doctor_names)}})
          : cached \in {CacheGet(classifier._intent_cache, msg_norm, now)}})
          : msg_norm \in {strip(lower(normalize_ar(msg)))}})
          : msg \in {strip(message)}})

\* ------------------------------------------------------------------------
\* data/handler.py.  SHEET is what the Google Sheet holds, already through
\* normalize_doctors_data / normalize_branches_data / normalize_services_data
\* (every text stripped); the fields are the ones the replies read.  A fetch
\* either returns these rows or fails (no source configured, a request
\* error, an empty sheet): `up` says which, per request.
\* ------------------------------------------------------------------------

SHEET ==
    [doctors |->
        <<[doctor_id |-> <<68, 49>> (* D1 *), doctor_name |-> <<1583, 46, 32, 1587, 1575, 1585, 1577, 32, 1575, 1604, 1602, 1581, 1591, 1575, 1606, 1610>> (* د. سارة القحطاني *), specialty |-> <<1571, 1587, 1606, 1575, 1606>> (* أسنان *),
           branch_id |-> <<66, 49>> (* B1 *), days |-> <<1575, 1604, 1571, 1581, 1583, 45, 1575, 1604, 1582, 1605, 1610, 1587>> (* الأحد-الخميس *), time_from |-> <<48, 57, 58, 48, 48>> (* 09:00 *),
           time_to |-> <<49, 55, 58, 48, 48>> (* 17:00 *), experience_years |-> <<49, 50>> (* 12 *), qualifications |-> <<1576, 1608, 1585, 1583>> (* بورد *)],
          [doctor_id |-> <<68, 50>> (* D2 *), doctor_name |-> <<1583, 46, 32, 1582, 1575, 1604, 1583, 32, 1575, 1604, 1593, 1578, 1610, 1576, 1610>> (* د. خالد العتيبي *), specialty |-> <<1580, 1604, 1583, 1610, 1577>> (* جلدية *),
           branch_id |-> <<66, 55>> (* B7 *), days |-> <<>>, time_from |-> <<49, 48, 58, 48, 48>> (* 10:00 *),
           time_to |-> <<>>, experience_years |-> <<>>, qualifications |-> <<>>]>>,
     branches |->
        <<[branch_id |-> <<66, 49>> (* B1 *), branch_name |-> <<1601, 1585, 1593, 32, 1575, 1604, 1593, 1604, 1610, 1575>> (* فرع العليا *), address |-> <<1588, 1575, 1585, 1593, 32, 1575, 1604, 1593, 1604, 1610, 1575>> (* شارع العليا *),
           city |-> <<1575, 1604, 1585, 1610, 1575, 1590>> (* الرياض *), phone |-> <<48, 49, 49, 50, 51, 52, 53, 54, 55, 56>> (* 0112345678 *), email |-> <<97, 64, 98, 46, 115, 97>> (* a@b.sa *),
           hours_weekdays |-> <<57, 45, 50, 49>> (* 9-21 *), hours_weekend |-> <<49, 54, 45, 50, 50>> (* 16-22 *)],
          [branch_id |-> <<66, 50>> (* B2 *), branch_name |-> <<1601, 1585, 1593, 32, 1580, 1583, 1577>> (* فرع جدة *), address |-> <<>>,
           city |-> <<1580, 1583, 1577>> (* جدة *), phone |-> <<>>, email |-> <<>>,
           hours_weekdays |-> <<>>, hours_weekend |-> <<>>],
          [branch_id |-> <<66, 51>> (* B3 *), branch_name |-> <<>>, address |-> <<1591, 1585, 1610, 1602, 32, 1575, 1604, 1605, 1604, 1603>> (* طريق الملك *),
           city |-> <<>>, phone |-> <<48, 49, 49, 57, 57, 57, 57, 57, 57, 57>> (* 0119999999 *), email |-> <<>>,
           hours_weekdays |-> <<56, 45, 50, 48>> (* 8-20 *), hours_weekend |-> <<>>]>>,
     services |->
        <<[service_id |-> <<83, 49>> (* S1 *), service_name |-> <<1578, 1606, 1592, 1610, 1601, 32, 1575, 1587, 1606, 1575, 1606>> (* تنظيف اسنان *), price_sar |-> <<50, 48, 48>> (* 200 *)],
          [service_id |-> <<83, 50>> (* S2 *), service_name |-> <<1575, 1587, 1578, 1588, 1575, 1585, 1577, 32, 1580, 1604, 1583, 1610, 1577>> (* استشارة جلدية *), price_sar |-> <<>>]>>]

TABLES == <<"doctors", "services", "branches">>

CACHE_TTL == 3600
CACHE_MAXSIZE == 100

\* A DataHandler with nothing loaded: _doctors, _branches and _services are
\* None (the empty set), or hold the list (a singleton).
NewDataHandler == [doctors |-> {}, branches |-> {}, services |-> {}]

\* DataHandler._load_doctors / _load_branches / _load_services on
\* d = [data_handler, cache]: [raised, rows, cache].
_load(d, table, now, up) ==
    Only({IF hit # {}
        THEN [raised |-> FALSE, rows |-> (CHOOSE e \in hit : TRUE).value, cache |-> d.cache]
        ELSE IF ~up THEN [raised |-> TRUE, rows |-> <<>>, cache |-> d.cache]
        ELSE Only({[raised |-> FALSE, rows |-> rows,
                  cache |-> CachePut(d.cache, table, rows, now, CACHE_TTL, CACHE_MAXSIZE)]
                   : rows \in {SHEET[table]}})
          : hit \in {CacheGet(d.cache, table, now)}})

\* DataHandler.get_doctors / get_branches / get_services: [raised, rows, d].
get_rows(d, table, now, up) ==
    IF d.data_handler[table] # {}
    THEN [raised |-> FALSE, rows |-> CHOOSE rows \in d.data_handler[table] : TRUE, d |-> d]
    ELSE Only({IF r.raised THEN [raised |-> TRUE, rows |-> <<>>, d |-> d]
             ELSE [raised |-> FALSE, rows |-> r.rows,
                   d |-> [data_handler |-> [d.data_handler EXCEPT ![table] = {r.rows}],
                          cache |-> r.cache]]
               : r \in {_load(d, table, now, up)}})

\* The get_* calls of a code path, one table after the other, up to the
\* first that raises: [raised, d].
RECURSIVE get_each(_, _, _, _)
get_each(d, tables, now, up) ==
    IF tables = <<>> THEN [raised |-> FALSE, d |-> d]
    ELSE Only({IF r.raised THEN [raised |-> TRUE, d |-> r.d]
             ELSE get_each(r.d, Tail(tables), now, up)
               : r \in {get_rows(d, Head(tables), now, up)}})

\* The rows of a table that has been read on this path.
Rows(d, table) == CHOOSE rows \in d.data_handler[table] : TRUE

\* DataHandler.find_doctor_by_name: the doctors it can return, as indexes
\* into the list (0 for None).
find_doctor_by_name(doctors, name) ==
    extractOne(name, [i \in 1..Len(doctors) |-> doctors[i].doctor_name])

\* DataHandler.get_branch_by_id: the branch, none or one.
get_branch_by_id(branches, branch_id) ==
    Only({IF at = {} THEN {} ELSE {branches[Least(at)]}
          : at \in {{i \in 1..Len(branches) : branches[i].branch_id = branch_id}}})

\* ------------------------------------------------------------------------
\* core/agent.py: ChatAgent.generate_response.  The prompt is not modelled:
\* what the response model answers is an input.
\* ------------------------------------------------------------------------

RESPONSE_CACHE_TTL == 60
RESPONSE_CACHE_MAXSIZE == 300

FAST_INTENTS == {"greeting", "thanks", "goodbye"}

\* the canned replies of the fast intents
FastReply(intent) ==
    IF intent = "greeting" THEN <<1607, 1604, 1575, 32, 1608, 1575, 1604, 1604, 1607, 32, 128075, 32, 1588, 1604, 1608, 1606, 32, 1571, 1602, 1583, 1585, 32, 1571, 1582, 1583, 1605, 1603, 1567, 32, 1578, 1576, 1610, 32, 1571, 1591, 1576, 1575, 1569, 32, 1608, 1604, 1575, 32, 1582, 1583, 1605, 1575, 1578, 32, 1608, 1604, 1575, 32, 1601, 1585, 1608, 1593, 1567>> (* هلا والله 👋 شلون أقدر أخدمك؟ تبي أطباء ولا خدمات ولا فروع؟ *)
    ELSE IF intent = "thanks" THEN <<1575, 1604, 1593, 1601, 1608, 32, 1608, 1575, 1604, 1604, 1607, 32, 9989, 32, 1573, 1584, 1575, 32, 1578, 1576, 1610, 32, 1571, 1610, 32, 1588, 1610, 32, 1571, 1606, 1575, 32, 1581, 1575, 1590, 1585, 46>> (* العفو والله ✅ إذا تبي أي شي أنا حاضر. *)
    ELSE <<1581, 1610, 1575, 1603, 32, 1575, 1604, 1604, 1607, 32, 128075, 32, 1576, 1571, 1610, 32, 1608, 1602, 1578, 32, 1578, 1581, 1578, 1575, 1580, 1606, 1575, 46>> (* حياك الله 👋 بأي وقت تحتاجنا. *)

LAST_RESORT_REPLY == <<1571, 1607, 1604, 1575, 1611, 33, 32, 1603, 1610, 1601, 32, 1571, 1602, 1583, 1585, 32, 1571, 1587, 1575, 1593, 1583, 1603, 1567, 32, 1593, 1606, 1583, 1603, 32, 1575, 1587, 1578, 1601, 1587, 1575, 1585, 32, 1593, 1606, 32, 1571, 1591, 1576, 1575, 1569, 32, 1571, 1608, 32, 1582, 1583, 1605, 1575, 1578, 32, 1571, 1608, 32, 1601, 1585, 1608, 1593, 1567>> (* أهلاً! كيف أقدر أساعدك؟ عندك استفسار عن أطباء أو خدمات أو فروع؟ *)

\* detected_topic of the unclear/faq fallback, "" for None
detected_topic(message) ==
    Only({IF any_in({<<1591, 1576, 1610, 1576>> (* طبيب *), <<1583, 1603, 1578, 1608, 1585>> (* دكتور *), <<1583, 46>> (* د. *)}, message_lower_norm) THEN "doctors"
        ELSE IF any_in({<<1582, 1583, 1605, 1577>> (* خدمة *), <<1582, 1583, 1605, 1575, 1578>> (* خدمات *)}, message_lower_norm) THEN "services"
        ELSE IF any_in({<<1601, 1585, 1593>> (* فرع *), <<1601, 1585, 1608, 1593>> (* فروع *)}, message_lower_norm) THEN "branches"
        ELSE IF any_in({<<1581, 1580, 1586>> (* حجز *), <<1605, 1608, 1593, 1583>> (* موعد *)}, message_lower_norm) THEN "booking"
        ELSE IF any_in({<<1583, 1608, 1575, 1605>> (* دوام *), <<1587, 1575, 1593, 1575, 1578>> (* ساعات *), <<1608, 1602, 1578>> (* وقت *)}, message_lower_norm) THEN "hours"
        ELSE ""
          : message_lower_norm \in {normalize_ar(lower(message))}})

\* the reply of the unclear/faq fallback, lines 266-338, for the lists read
UnclearFallback(message, doctors, services, branches) ==
    Only({Only({IF options = <<>> THEN LAST_RESORT_REPLY
        ELSE IF topic = "doctors" /\ doctors # <<>>
        THEN <<1578, 1605, 1575, 1605, 33, 32, 1593, 1606, 1583, 1606, 1575, 32, 1571, 1591, 1576, 1575, 1569, 32, 1605, 1605, 1578, 1575, 1586, 1610, 1606, 46, 32, 1578, 1576, 1610, 32, 1602, 1575, 1574, 1605, 1577, 32, 1603, 1604, 32, 1575, 1604, 1571, 1591, 1576, 1575, 1569, 32, 1608, 1604, 1575, 32, 1578, 1582, 1589, 1589, 32, 1605, 1593, 1610, 1606, 1567, 32, 40, 1571, 1587, 1606, 1575, 1606, 47, 1580, 1604, 1583, 1610, 1577, 47, 1571, 1591, 1601, 1575, 1604, 47, 1606, 1587, 1575, 1569, 41>> (* تمام! عندنا أطباء ممتازين. تبي قائمة كل الأطباء ولا تخصص معين؟ (أسنان/جلدية/أطفال/نساء) *)
        ELSE IF topic = "services" /\ services # <<>>
        THEN <<1593, 1604, 1609, 32, 1575, 1604, 1585, 1581, 1576, 33, 32, 1593, 1606, 1583, 1606, 1575, 32, 1582, 1583, 1605, 1575, 1578, 32, 1605, 1578, 1606, 1608, 1593, 1577, 46, 32, 1578, 1576, 1610, 32, 1602, 1575, 1574, 1605, 1577, 32, 1575, 1604, 1582, 1583, 1605, 1575, 1578, 32, 1608, 1604, 1575, 32, 1582, 1583, 1605, 1577, 32, 1605, 1593, 1610, 1606, 1577, 1567>> (* على الرحب! عندنا خدمات متنوعة. تبي قائمة الخدمات ولا خدمة معينة؟ *)
        ELSE IF topic = "branches" /\ branches # <<>>
        THEN <<1571, 1603, 1610, 1583, 33, 32, 1593, 1606, 1583, 1606, 1575, 32, 1601, 1585, 1608, 1593, 32, 1601, 1610, 32, 1605, 1583, 1606, 32, 1605, 1582, 1578, 1604, 1601, 1577, 46, 32, 1578, 1576, 1610, 32, 1601, 1585, 1608, 1593, 32, 1571, 1610, 32, 1605, 1583, 1610, 1606, 1577, 1567, 32, 1608, 1604, 1575, 32, 1571, 1593, 1591, 1610, 1603, 32, 1603, 1604, 32, 1575, 1604, 1601, 1585, 1608, 1593, 1567>> (* أكيد! عندنا فروع في مدن مختلفة. تبي فروع أي مدينة؟ ولا أعطيك كل الفروع؟ *)
        ELSE IF topic = "booking"
        THEN <<1575, 1604, 1581, 1580, 1586, 32, 1587, 1607, 1604, 33, 32, 1602, 1608, 1604, 1610, 32, 1575, 1587, 1605, 32, 1575, 1604, 1591, 1576, 1610, 1576, 32, 1571, 1608, 32, 1575, 1604, 1582, 1583, 1605, 1577, 32, 1575, 1604, 1604, 1610, 32, 1578, 1576, 1610, 1607, 1575, 1548, 32, 1608, 1571, 1606, 1575, 32, 1571, 1587, 1575, 1593, 1583, 1603, 32, 1578, 1581, 1580, 1586, 46, 32, 1571, 1608, 32, 1602, 1608, 1604, 1610, 32, 39, 1581, 1580, 1586, 39, 32, 1604, 1604, 1576, 1583, 1569, 46>> (* الحجز سهل! قولي اسم الطبيب أو الخدمة اللي تبيها، وأنا أساعدك تحجز. أو قولي 'حجز' للبدء. *)
        ELSE IF topic = "hours" /\ branches # <<>>
        THEN <<1571, 1602, 1583, 1585, 32, 1571, 1593, 1591, 1610, 1603, 32, 1571, 1608, 1602, 1575, 1578, 32, 1575, 1604, 1583, 1608, 1575, 1605, 46, 32, 1578, 1576, 1610, 32, 1603, 1604, 32, 1575, 1604, 1601, 1585, 1608, 1593, 32, 1608, 1604, 1575, 32, 1605, 1583, 1610, 1606, 1577, 32, 1605, 1593, 1610, 1606, 1577, 1567>> (* أقدر أعطيك أوقات الدوام. تبي كل الفروع ولا مدينة معينة؟ *)
        ELSE <<1571, 1607, 1604, 1575, 1611, 33, 32, 1603, 1610, 1601, 32, 1571, 1602, 1583, 1585, 32, 1571, 1587, 1575, 1593, 1583, 1603, 1567, 32, 1593, 1606, 1583, 1603, 32, 1575, 1587, 1578, 1601, 1587, 1575, 1585, 32, 1593, 1606, 58, 32>> (* أهلاً! كيف أقدر أساعدك؟ عندك استفسار عن:  *) \o join(options, <<32, 1571, 1608, 32>> (*  أو  *)) \o <<1567>> (* ؟ *)
          : options \in {(IF doctors # <<>> THEN <<<<1571, 1591, 1576, 1575, 1569>> (* أطباء *)>> ELSE <<>>)
        \o (IF services # <<>> THEN <<<<1582, 1583, 1605, 1575, 1578>> (* خدمات *)>> ELSE <<>>)
        \o (IF branches # <<>> THEN <<<<1601, 1585, 1608, 1593>> (* فروع *)>> ELSE <<>>)}})
          : topic \in {detected_topic(message)}})

\* the except branch of generate_response, lines 204-345: the fallback reply
FallbackReply(message, intent, doctors, services, branches) ==
    Only({IF intent = "doctor"
        THEN <<1578, 1605, 1575, 1605, 32, 9989, 32, 1578, 1576, 1610, 32, 1602, 1575, 1574, 1605, 1577, 32, 1603, 1604, 32, 1575, 1604, 1571, 1591, 1576, 1575, 1569, 32, 1608, 1604, 1575, 32, 1578, 1582, 1589, 1589, 32, 1605, 1593, 1610, 1617, 1606, 1567, 32, 40, 1571, 1587, 1606, 1575, 1606, 47, 1580, 1604, 1583, 1610, 1577, 47, 1571, 1591, 1601, 1575, 1604, 47, 1606, 1587, 1575, 1569, 41>> (* تمام ✅ تبي قائمة كل الأطباء ولا تخصص معيّن؟ (أسنان/جلدية/أطفال/نساء) *)
        ELSE IF intent = "branch" THEN <<1571, 1603, 1610, 1583, 32, 128205, 32, 1578, 1576, 1610, 32, 1601, 1585, 1608, 1593, 32, 1571, 1610, 32, 1605, 1583, 1610, 1606, 1577, 1567, 32, 1608, 1604, 1575, 32, 1571, 1593, 1591, 1610, 1603, 32, 1603, 1604, 32, 1575, 1604, 1601, 1585, 1608, 1593, 1567>> (* أكيد 📍 تبي فروع أي مدينة؟ ولا أعطيك كل الفروع؟ *)
        ELSE IF intent = "service" THEN <<1593, 1604, 1609, 32, 1575, 1604, 1585, 1581, 1576, 32, 1608, 1575, 1604, 1587, 1593, 1577, 32, 128161, 32, 1578, 1576, 1610, 32, 1602, 1575, 1574, 1605, 1577, 32, 1575, 1604, 1582, 1583, 1605, 1575, 1578, 32, 1608, 1604, 1575, 32, 1582, 1583, 1605, 1577, 32, 1605, 1593, 1610, 1606, 1577, 1567>> (* على الرحب والسعة 💡 تبي قائمة الخدمات ولا خدمة معينة؟ *)
        ELSE IF intent = "booking"
        THEN <<1571, 1587, 1575, 1593, 1583, 1603, 32, 1576, 1575, 1604, 1581, 1580, 1586, 46, 32, 1593, 1591, 1610, 1606, 1610, 32, 1575, 1587, 1605, 1603, 32, 1608, 1585, 1602, 1605, 1603, 32, 1608, 1575, 1604, 1582, 1583, 1605, 1577, 32, 1571, 1608, 32, 1575, 1604, 1591, 1576, 1610, 1576, 32, 1575, 1604, 1605, 1601, 1590, 1604, 46>> (* أساعدك بالحجز. عطيني اسمك ورقمك والخدمة أو الطبيب المفضل. *)
        ELSE IF intent = "hours" THEN <<1571, 1602, 1583, 1585, 32, 1571, 1593, 1591, 1610, 1603, 32, 1571, 1608, 1602, 1575, 1578, 32, 1575, 1604, 1583, 1608, 1575, 1605, 46, 32, 1578, 1576, 1610, 32, 1603, 1604, 32, 1575, 1604, 1601, 1585, 1608, 1593, 32, 1608, 1604, 1575, 32, 1605, 1583, 1610, 1606, 1577, 32, 1605, 1593, 1610, 1606, 1577, 1567>> (* أقدر أعطيك أوقات الدوام. تبي كل الفروع ولا مدينة معينة؟ *)
        ELSE IF intent = "contact" THEN <<1604, 1604, 1578, 1608, 1575, 1589, 1604, 58, 32, 1578, 1576, 1610, 32, 1571, 1585, 1602, 1575, 1605, 32, 1571, 1608, 32, 1605, 1608, 1602, 1593, 32, 1575, 1604, 1601, 1585, 1608, 1593, 1567>> (* للتواصل: تبي أرقام أو موقع الفروع؟ *)
        ELSE IF intent = "general" /\ any_in({<<1575, 1587, 1605, 1603>> (* اسمك *), <<1605, 1606, 32, 1571, 1606, 1578>> (* من أنت *), <<1605, 1610, 1606, 32, 1575, 1606, 1578>> (* مين انت *)}, message_lower)
        THEN <<1575, 1587, 1605, 1610, 32, 1605, 1587, 1575, 1593, 1583, 32, 1576, 1604, 1608, 32, 1583, 1610, 1605, 32, 127973, 32, 1603, 1610, 1601, 32, 1571, 1602, 1583, 1585, 32, 1571, 1587, 1575, 1593, 1583, 1603, 32, 1575, 1604, 1610, 1608, 1605, 1567, 32, 1593, 1606, 1583, 1603, 32, 1575, 1587, 1578, 1601, 1587, 1575, 1585, 32, 1593, 1606, 32, 1571, 1591, 1576, 1575, 1569, 32, 1571, 1608, 32, 1582, 1583, 1605, 1575, 1578, 32, 1571, 1608, 32, 1581, 1580, 1586, 1567>> (* اسمي مساعد بلو ديم 🏥 كيف أقدر أساعدك اليوم؟ عندك استفسار عن أطباء أو خدمات أو حجز؟ *)
        ELSE IF intent = "general" /\ any_in({<<1575, 1587, 1578, 1601, 1587, 1575, 1585>> (* استفسار *), <<1587, 1572, 1575, 1604>> (* سؤال *)}, message_lower)
        THEN <<1571, 1607, 1604, 1575, 1611, 33, 32, 1603, 1610, 1601, 32, 1571, 1602, 1583, 1585, 32, 1571, 1587, 1575, 1593, 1583, 1603, 1567, 32, 1593, 1606, 1583, 1603, 32, 1575, 1587, 1578, 1601, 1587, 1575, 1585, 32, 1593, 1606, 32, 1573, 1610, 1588, 1567, 32, 40, 1571, 1591, 1576, 1575, 1569, 47, 1582, 1583, 1605, 1575, 1578, 47, 1581, 1580, 1586, 47, 1601, 1585, 1608, 1593, 41>> (* أهلاً! كيف أقدر أساعدك؟ عندك استفسار عن إيش؟ (أطباء/خدمات/حجز/فروع) *)
        ELSE IF intent = "general" /\ any_in({<<1603, 1610, 1601, 32, 1571, 1581, 1580, 1586>> (* كيف أحجز *), <<1603, 1610, 1601, 32, 1575, 1581, 1580, 1586>> (* كيف احجز *)}, message_lower)
        THEN <<1575, 1604, 1581, 1580, 1586, 32, 1587, 1607, 1604, 33, 32, 1602, 1608, 1604, 1610, 32, 1575, 1587, 1605, 32, 1575, 1604, 1591, 1576, 1610, 1576, 32, 1571, 1608, 32, 1575, 1604, 1582, 1583, 1605, 1577, 32, 1575, 1604, 1604, 1610, 32, 1578, 1576, 1610, 1607, 1575, 1548, 32, 1608, 1571, 1606, 1575, 32, 1571, 1587, 1575, 1593, 1583, 1603, 32, 1578, 1581, 1580, 1586, 46, 32, 1571, 1608, 32, 1602, 1608, 1604, 1610, 32, 39, 1581, 1580, 1586, 39, 32, 1604, 1604, 1576, 1583, 1569, 46>> (* الحجز سهل! قولي اسم الطبيب أو الخدمة اللي تبيها، وأنا أساعدك تحجز. أو قولي 'حجز' للبدء. *)
        ELSE IF intent \in {"unclear", "faq"}
        THEN UnclearFallback(message, doctors, services, branches)
        ELSE LAST_RESORT_REPLY
          : message_lower \in {lower(message)}})

\* The tables _prepare_context reads from data_handler for an intent, given
\* whether the router passed relevant_data (which then holds the lists).
PrepareTables(intent, has_relevant) ==
    IF has_relevant THEN <<>>
    ELSE IF intent = "doctor" THEN <<"doctors">>
    ELSE IF intent = "service" THEN <<"services">>
    ELSE IF intent \in {"branch", "hours"} THEN <<"branches">>
    ELSE IF intent \in {"general", "unclear", "faq"} THEN TABLES
    ELSE <<>>

\* the cache key (intent, norm_msg, ent_key); sorted() of the entity keys is
\* modelled by their set
ResponseKey(message, intent, entities) ==
    <<intent, normalize_ar(message),
      {<<entities[i].type, entities[i].value>> : i \in 1..Len(entities)}>>

\* an outcome of generate_response
Out(raised, text, rcache, dd, called) ==
    [raised |-> raised, response_text |-> text, _response_cache |-> rcache,
     d |-> dd, model_called |-> called]

\* the except branch, lines 204-345: for unclear and faq it reads the three
\* lists from data_handler, outside any try; the other intents read nothing
Fallback(agent, dd, message, intent, now, up) ==
    IF intent \in {"unclear", "faq"}
    THEN Only({IF lists.raised
               THEN Out(TRUE, None, agent._response_cache, lists.d, TRUE)
               ELSE Out(FALSE,
                        FallbackReply(message, intent, Rows(lists.d, "doctors"),
                                      Rows(lists.d, "services"), Rows(lists.d, "branches")),
                        agent._response_cache, lists.d, TRUE)
               : lists \in {get_each(dd, TABLES, now, up)}})
    ELSE Out(FALSE, FallbackReply(message, intent, <<>>, <<>>, <<>>),
             agent._response_cache, dd, TRUE)

\* ChatAgent.generate_response on agent = [_response_cache] and the data
\* d = [data_handler, cache]: the outcomes [raised, response_text,
\* _response_cache, d, model_called], one per answer of the response model
\* when it is asked.  An answer is [ok |-> FALSE] (the call raises, empty
\* content, content that does not parse or validate) or
\* [ok |-> TRUE, response_text].
generate_response(agent, d, message, intent, entities, has_relevant, history, now, up, model_answers) ==
    Only({Only({IF cached # {}
        THEN {Out(FALSE, e.value, agent._response_cache, d, FALSE) : e \in cached}
        ELSE IF intent \in FAST_INTENTS
        THEN {Out(FALSE, FastReply(intent), agent._response_cache, d, FALSE)}
        ELSE
        Only({\* the general branch of _prepare_context swallows a failed read
            IF read.raised /\ intent # "general"
            THEN {Out(TRUE, None, agent._response_cache, read.d, FALSE)}
            ELSE {IF answer.ok
                  THEN Out(FALSE, answer.response_text,
                           IF history = <<>>
                           THEN CachePut(agent._response_cache, cache_key,
                                         answer.response_text, now, RESPONSE_CACHE_TTL,
                                         RESPONSE_CACHE_MAXSIZE)
                           ELSE agent._response_cache,
                           read.d, TRUE)
                  ELSE Fallback(agent, read.d, message, intent, now, up)
                  : answer \in model_answers}
              : read \in {get_each(d, PrepareTables(intent, has_relevant), now, up)}})
          : cached \in {IF history = <<>> THEN CacheGet(agent._response_cache, cache_key, now) ELSE {}}})
          : cache_key \in {ResponseKey(message, intent, entities)}})

\* ------------------------------------------------------------------------
\* core/context.py: the turn log.  The timestamp of a row is modelled by its
\* rank among the rows of its identity: requests are handled one after the
\* other and utcnow() grows, and the rows of two identities are never
\* compared.
\* ------------------------------------------------------------------------

\* The WHERE clause of get_recent_context.
HistoryFilter(row, user_id, platform) ==
    row.user_id = user_id /\ row.platform = platform

\* get_recent_context: the identity's last `limit` rows, oldest first.
get_recent_context(ch, user_id, platform, limit) ==
    Only({Only({[k \in 1..Cardinality(recent) |->
            CHOOSE r \in recent :
                Cardinality({q \in recent : q.timestamp < r.timestamp}) = k - 1]
          : recent \in {{r \in rows : Cardinality({q \in rows : q.timestamp > r.timestamp}) < limit}}})
          : rows \in {{r \in ch : HistoryFilter(r, user_id, platform)}}})

\* an add_to_context that stores nothing
add_to_context_drops(ch, user_id, platform, message, response, ok) == ch

\* add_to_context: one row more; when the commit fails (ok is FALSE) the
\* error is logged, the session rolled back and nothing is raised.
add_to_context(ch, user_id, platform, message, response, ok) ==
    IF ~ok THEN ch
    ELSE ch \cup {[user_id |-> user_id, platform |-> platform, message |-> message,
                   response |-> response,
                   timestamp |-> 1 + Cardinality({r \in ch : r.user_id = user_id
                                                             /\ r.platform = platform})]}

\* lines 105-127: the topics of the turns, as a set (unique_topics)
ContextTopics(history) ==
    {topic \in {<<1582, 1583, 1605, 1575, 1578>> (* خدمات *), <<1601, 1585, 1608, 1593>> (* فروع *), <<1581, 1580, 1586>> (* حجز *), <<1571, 1608, 1602, 1575, 1578, 32, 1575, 1604, 1583, 1608, 1575, 1605>> (* أوقات الدوام *)} :
        \E i \in 1..Len(history) :
            \E word \in (IF topic = <<1582, 1583, 1605, 1575, 1578>> (* خدمات *) THEN {<<1582, 1583, 1605, 1577>> (* خدمة *), <<1582, 1583, 1605, 1575, 1578>> (* خدمات *)}
                          ELSE IF topic = <<1601, 1585, 1608, 1593>> (* فروع *) THEN {<<1601, 1585, 1593>> (* فرع *), <<1601, 1585, 1608, 1593>> (* فروع *), <<1601, 1585, 1593, 1606, 1575>> (* فرعنا *)}
                          ELSE IF topic = <<1581, 1580, 1586>> (* حجز *) THEN {<<1581, 1580, 1586>> (* حجز *), <<1605, 1608, 1593, 1583>> (* موعد *), <<1575, 1581, 1580, 1586>> (* احجز *)}
                          ELSE {<<1583, 1608, 1575, 1605>> (* دوام *), <<1587, 1575, 1593, 1575, 1578>> (* ساعات *), <<1608, 1602, 1578>> (* وقت *)}) :
                \/ contains(lower(history[i].message), word)
                \/ contains(lower(history[i].response), word)}

\* the words of `words` not yet in `seen`, appended in order
RECURSIVE AppendNew(_, _)
AppendNew(seen, words) ==
    IF words = <<>> THEN seen
    ELSE AppendNew(IF Len(Head(words)) > 3
                      /\ Head(words) \notin {<<1591, 1576, 1610, 1576>> (* طبيب *), <<1583, 1603, 1578, 1608, 1585>> (* دكتور *), <<1583, 46>> (* د. *)}
                      /\ Head(words) \notin Range(seen)
                   THEN Append(seen, Head(words)) ELSE seen,
                   Tail(words))

\* lines 110-115: doctors_mentioned after the turns
RECURSIVE DoctorsMentioned(_)
DoctorsMentioned(history) ==
    IF history = <<>> THEN <<>>
    ELSE Only({Only({Only({
            IF \E word \in {<<1591, 1576, 1610, 1576>> (* طبيب *), <<1583, 1603, 1578, 1608, 1585>> (* دكتور *), <<1583, 46>> (* د. *)} :
                  contains(message, word) \/ contains(response, word)
            THEN AppendNew(seen, split(message) \o split(response))
            ELSE seen
          : seen \in {DoctorsMentioned(SubSeq(history, 1, Len(history) - 1))}})
          : response \in {lower(history[Len(history)].response)}})
          : message \in {lower(history[Len(history)].message)}})

\* the orders a set of texts can be listed in: list(set(...))
RECURSIVE Orders(_)
Orders(S) ==
    IF S = {} THEN {<<>>}
    ELSE UNION {{<<x>> \o rest : rest \in Orders(S \ {x})} : x \in S}

\* lines 129-138: the summary, one per order of the topics
ContextSummaries(history) ==
    Only({{join((IF topics = <<>> THEN <<>>
                 ELSE <<<<1575, 1604, 1605, 1608, 1575, 1590, 1610, 1593, 32, 1575, 1604, 1605, 1591, 1585, 1608, 1581, 1577, 58, 32>> (* المواضيع المطروحة:  *) \o join(topics, <<44, 32>> (* ,  *))>>)
                \o (IF doctors = <<>> THEN <<>>
                    ELSE <<<<1571, 1591, 1576, 1575, 1569, 32, 1578, 1605, 32, 1584, 1603, 1585, 1607, 1605, 58, 32>> (* أطباء تم ذكرهم:  *)
                           \o join(SubSeq(doctors, 1, IF Len(doctors) < 5 THEN Len(doctors) ELSE 5),
                                   <<44, 32>> (* ,  *))>>),
                <<10>>)
           : topics \in Orders(ContextTopics(history))}
          : doctors \in {DoctorsMentioned(history)}})

\* line 153: entry_text of a turn
EntryText(entry) ==
    <<1575, 1604, 1605, 1587, 1578, 1582, 1583, 1605, 58, 32>> (* المستخدم:  *) \o entry.message \o <<10, 1575, 1604, 1576, 1608, 1578, 58, 32>> (* \nالبوت:  *) \o entry.response \o <<10, 10>>

\* lines 149-160: the entry texts appended from turn i down, the loop
\* breaking at the first one that does not fit
RECURSIVE ContextEntries(_, _, _, _)
ContextEntries(history, i, current_length, max_length) ==
    IF i = 0 THEN <<>>
    ELSE Only({IF current_length + Len(entry_text) > max_length THEN <<>>
             ELSE <<entry_text>>
                  \o ContextEntries(history, i - 1, current_length + Len(entry_text),
                                    max_length)
               : entry_text \in {EntryText(history[i])}})

CONTEXT_HEADER == <<1605, 1604, 1582, 1589, 32, 1575, 1604, 1605, 1581, 1575, 1583, 1579, 1577, 32, 1575, 1604, 1587, 1575, 1576, 1602, 1577, 58, 10>> (* ملخص المحادثة السابقة:\n *)

CONTEXT_INSTRUCTION ==
    <<10, 10, 42, 42, 1605, 1607, 1605, 58, 42, 42, 32, 1575, 1587, 1578, 1582, 1583, 1605, 32, 1607, 1584, 1607, 32, 1575, 1604, 1605, 1593, 1604, 1608, 1605, 1575, 1578, 32, 1604, 1601, 1607, 1605, 32, 1575, 1604, 1587, 1610, 1575, 1602, 32, 1608, 1585, 1576, 1591, 32, 1575, 1604, 1571, 1587, 1574, 1604, 1577, 32, 1575, 1604, 1581, 1575, 1604, 1610, 1577, 32, 1576, 1575, 1604, 1605, 1581, 1575, 1583, 1579, 1577, 32, 1575, 1604, 1587, 1575, 1576, 1602, 1577, 46>> (* \n\n**مهم:** استخدم هذه المعلومات لفهم السياق وربط الأسئلة الحالية بالمحادثة السابقة. *)

\* lines 140-160: context_parts
ContextParts(history, summary, max_length) ==
    (IF summary # <<>> THEN <<CONTEXT_HEADER \o summary \o <<10>>>> ELSE <<>>)
    \o ContextEntries(history, Len(history), Len(summary), max_length)

\* ContextManager.build_context_string: the texts it can return, one per
\* order of the topics in the summary
build_context_string(history, max_length) ==
    IF history = <<>> THEN {<<>>}
    ELSE {Only({IF result = <<>> THEN <<>> ELSE result \o CONTEXT_INSTRUCTION
                : result \in {strip(join(ContextParts(history, summary, max_length), <<10>>))}})
          : summary \in ContextSummaries(history)}

\* ------------------------------------------------------------------------
\* core/router.py: the replies built without a model
\* ------------------------------------------------------------------------

\* str(n) for n >= 0
RECURSIVE str(_)
str(n) == IF n < 10 THEN <<48 + n>> ELSE str(n \div 10) \o <<48 + (n % 10)>>

\* sep.join([f"{i+1}. {x}" for i, x in enumerate(items)])
Numbered(items, sep) ==
    join([i \in 1..Len(items) |-> str(i) \o <<46, 32>> (* .  *) \o items[i]], sep)

\* s.replace(old, "") for a non-empty old
RECURSIVE remove(_, _)
remove(s, old) ==
    IF Len(s) < Len(old) THEN s
    ELSE IF SubSeq(s, 1, Len(old)) = old THEN remove(SubSeq(s, Len(old) + 1, Len(s)), old)
    ELSE <<s[1]>> \o remove(Tail(s), old)

CANCEL_WORDS == {<<1575, 1604, 1594, 1575, 1569>> (* الغاء *), <<1573, 1604, 1594, 1575, 1569>> (* إلغاء *), <<1582, 1585, 1608, 1580>> (* خروج *), <<1604, 1575>> (* لا *), <<1604, 1575, 32, 1571, 1585, 1610, 1583>> (* لا أريد *), <<1604, 1575, 32, 1575, 1585, 1610, 1583>> (* لا اريد *)}

CANCEL_REPLY == <<1578, 1605, 32, 1573, 1604, 1594, 1575, 1569, 32, 1575, 1604, 1581, 1580, 1586, 46, 32, 1603, 1610, 1601, 32, 1571, 1602, 1583, 1585, 32, 1571, 1587, 1575, 1593, 1583, 1603, 1567>> (* تم إلغاء الحجز. كيف أقدر أساعدك؟ *)

EXPLICIT_BOOKING_KEYWORDS ==
    {<<1575, 1576, 1610, 32, 1575, 1581, 1580, 1586>> (* ابي احجز *), <<1575, 1585, 1610, 1583, 32, 1575, 1581, 1580, 1586>> (* اريد احجز *), <<1581, 1575, 1576, 32, 1575, 1581, 1580, 1586>> (* حاب احجز *), <<1575, 1576, 1610, 32, 1575, 1581, 1580, 1586, 32, 1593, 1606, 1583, 1607>> (* ابي احجز عنده *), <<1575, 1585, 1610, 1583, 32, 1575, 1581, 1580, 1586, 32, 1593, 1606, 1583, 1607>> (* اريد احجز عنده *)}

BARE_BOOKING_WORDS == {<<1581, 1580, 1586>> (* حجز *), <<1575, 1581, 1580, 1586>> (* احجز *), <<1605, 1608, 1593, 1583>> (* موعد *)}

ROUTER_SIMPLE_GREETINGS == {<<1607, 1604, 1575>> (* هلا *), <<1575, 1607, 1604, 1575>> (* اهلا *), <<1605, 1585, 1581, 1576, 1575>> (* مرحبا *), <<1607, 1575, 1610>> (* هاي *), <<1571, 1607, 1604, 1575>> (* أهلا *), <<1571, 1607, 1604, 1575, 1611>> (* أهلاً *), <<1607, 1604, 1575, 1611>> (* هلاً *)}

NO_HOURS_REPLY == <<9888, 65039, 32, 1605, 1575, 32, 1604, 1602, 1610, 1578, 32, 1605, 1593, 1604, 1608, 1605, 1575, 1578, 32, 1593, 1606, 32, 1575, 1604, 1583, 1608, 1575, 1605, 32, 1581, 1575, 1604, 1610, 1575, 1611, 46>> (* ⚠️ ما لقيت معلومات عن الدوام حالياً. *)

THANKS_REPLY == <<1575, 1604, 1604, 1607, 32, 1610, 1593, 1591, 1610, 1603, 32, 1575, 1604, 1593, 1575, 1601, 1610, 1577, 33, 32, 128522, 32, 1573, 1584, 1575, 32, 1593, 1606, 1583, 1603, 32, 1571, 1610, 32, 1575, 1587, 1578, 1601, 1587, 1575, 1585, 32, 1579, 1575, 1606, 1610, 1548, 32, 1571, 1606, 1575, 32, 1605, 1608, 1580, 1608, 1583, 46>> (* الله يعطيك العافية! 😊 إذا عندك أي استفسار ثاني، أنا موجود. *)

GOODBYE_REPLY == <<1605, 1593, 32, 1575, 1604, 1587, 1604, 1575, 1605, 1577, 33, 32, 1575, 1604, 1604, 1607, 32, 1610, 1608, 1601, 1602, 1603, 46, 32, 1573, 1584, 1575, 32, 1575, 1581, 1578, 1580, 1578, 32, 1588, 1610, 32, 1579, 1575, 1606, 1610, 1548, 32, 1571, 1606, 1575, 32, 1605, 1608, 1580, 1608, 1583, 46>> (* مع السلامة! الله يوفقك. إذا احتجت شي ثاني، أنا موجود. *)

NO_CONTACT_REPLY == <<128222, 32, 1604, 1604, 1578, 1608, 1575, 1589, 1604, 58, 32, 1578, 1608, 1575, 1589, 1604, 32, 1605, 1593, 1606, 1575, 32, 1593, 1604, 1609, 32, 1575, 1604, 1571, 1585, 1602, 1575, 1605, 32, 1575, 1604, 1605, 1578, 1575, 1581, 1577, 32, 1601, 1610, 32, 1575, 1604, 1601, 1585, 1608, 1593, 46>> (* 📞 للتواصل: تواصل معنا على الأرقام المتاحة في الفروع. *)

FAQ_REPLY == <<1593, 1584, 1585, 1575, 1611, 1548, 32, 1605, 1575, 32, 1602, 1583, 1585, 1578, 32, 1571, 1601, 1607, 1605, 32, 1587, 1572, 1575, 1604, 1603, 32, 1576, 1575, 1604, 1590, 1576, 1591, 46, 32, 1578, 1576, 1610, 32, 1578, 1593, 1585, 1601, 32, 1593, 1606, 58, 10, 8226, 32, 1571, 1591, 1576, 1575, 1569, 10, 8226, 32, 1601, 1585, 1608, 1593, 10, 8226, 32, 1582, 1583, 1605, 1575, 1578, 10, 8226, 32, 1581, 1580, 1586>> (* عذراً، ما قدرت أفهم سؤالك بالضبط. تبي تعرف عن:\n• أطباء\n• فروع\n• خدمات\n• حجز *)

\* the reply of the hours branch, lines 165-186
HoursReply(branches) ==
    Only({Only({IF hours_list # <<>>
        THEN <<9200, 32, 1571, 1608, 1602, 1575, 1578, 32, 1575, 1604, 1583, 1608, 1575, 1605, 58, 10, 10>> (* ⏰ أوقات الدوام:\n\n *) \o Numbered(hours_list, <<10>>)
        ELSE NO_HOURS_REPLY
          : hours_list \in {
            [i \in 1..Len(named) |->
                named[i].branch_name \o <<58>> (* : *)
                \o (IF named[i].hours_weekdays # <<>>
                    THEN <<32, 1575, 1604, 1571, 1587, 1576, 1608, 1593, 58, 32>> (*  الأسبوع:  *) \o named[i].hours_weekdays ELSE <<>>)
                \o (IF named[i].hours_weekend # <<>>
                    THEN <<32, 124, 32, 1606, 1607, 1575, 1610, 1577, 32, 1575, 1604, 1571, 1587, 1576, 1608, 1593, 58, 32>> (*  | نهاية الأسبوع:  *) \o named[i].hours_weekend ELSE <<>>)]}})
          : named \in {SelectSeq(branches, LAMBDA b : b.branch_name # <<>>)}})

\* the reply of the contact branch, lines 200-227
ContactReply(branches) ==
    Only({Only({IF contact_info # <<>>
        THEN <<128222, 32, 1605, 1593, 1604, 1608, 1605, 1575, 1578, 32, 1575, 1604, 1578, 1608, 1575, 1589, 1604, 58, 10, 10>> (* 📞 معلومات التواصل:\n\n *) \o Numbered(contact_info, <<10, 10>>)
        ELSE NO_CONTACT_REPLY
          : contact_info \in {
            [i \in 1..Len(named) |->
                named[i].branch_name
                \o (IF named[i].phone # <<>> THEN <<10, 128222, 32>> (* \n📞  *) \o named[i].phone ELSE <<>>)
                \o (IF named[i].email # <<>> THEN <<10, 128231, 32>> (* \n📧  *) \o named[i].email ELSE <<>>)
                \o (IF named[i].address # <<>> THEN <<10, 128205, 32>> (* \n📍  *) \o named[i].address ELSE <<>>)
                \o (IF named[i].city # <<>> THEN <<44, 32>> (* ,  *) \o named[i].city ELSE <<>>)]}})
          : named \in {SelectSeq(branches, LAMBDA b : b.branch_name # <<>>)}})

\* the specialty_keywords of _respond_directly, in dict order
SPECIALTY_KEYWORDS ==
    <<<<1575, 1587, 1606, 1575, 1606>> (* اسنان *), <<1580, 1604, 1583, 1610, 1577>> (* جلدية *), <<1606, 1587, 1575, 1569>> (* نساء *), <<1608, 1604, 1575, 1583, 1577>> (* ولادة *), <<1575, 1591, 1601, 1575, 1604>> (* اطفال *), <<1593, 1592, 1575, 1605>> (* عظام *), <<1576, 1575, 1591, 1606, 1610, 1577>> (* باطنية *)>>

SPECIALTY_NAMES ==
    <<<<1571, 1587, 1606, 1575, 1606>> (* أسنان *), <<1580, 1604, 1583, 1610, 1577>> (* جلدية *), <<1606, 1587, 1575, 1569, 32, 1608, 1608, 1604, 1575, 1583, 1577>> (* نساء وولادة *), <<1606, 1587, 1575, 1569, 32, 1608, 1608, 1604, 1575, 1583, 1577>> (* نساء وولادة *), <<1571, 1591, 1601, 1575, 1604>> (* أطفال *), <<1593, 1592, 1575, 1605>> (* عظام *), <<1576, 1575, 1591, 1606, 1610, 1577>> (* باطنية *)>>

\* f"{name} ({specialty})" if specialty else name, for the doctors with a name
DoctorList(doctors) ==
    Only({[i \in 1..Len(named) |->
            IF named[i].specialty # <<>>
            THEN named[i].doctor_name \o <<32, 40>> (*  ( *) \o named[i].specialty \o <<41>> (* ) *)
            ELSE named[i].doctor_name]
          : named \in {SelectSeq(doctors, LAMBDA doc : doc.doctor_name # <<>>)}})

\* the card of one doctor, lines 400-436
DoctorCard(doctor, branches) ==
    Only({strip(
            <<9989, 32>> (* ✅  *) \o doctor.doctor_name \o <<10>>
            \o (IF doctor.specialty # <<>>
                THEN <<1575, 1604, 1578, 1582, 1589, 1589, 58, 32>> (* التخصص:  *) \o doctor.specialty \o <<10>> ELSE <<>>)
            \o (IF doctor.experience_years # <<>>
                THEN <<9200, 32, 1575, 1604, 1582, 1576, 1585, 1577, 58, 32>> (* ⏰ الخبرة:  *) \o doctor.experience_years \o <<32, 1587, 1606, 1577, 10>> (*  سنة\n *) ELSE <<>>)
            \o (IF doctor.qualifications # <<>>
                THEN <<128220, 32, 1575, 1604, 1605, 1572, 1607, 1604, 1575, 1578, 58, 32>> (* 📜 المؤهلات:  *) \o doctor.qualifications \o <<10>> ELSE <<>>)
            \o (IF branch # {}
                THEN Only({IF b.branch_name # <<>>
                         THEN <<128205, 32, 1575, 1604, 1601, 1585, 1593, 58, 32>> (* 📍 الفرع:  *) \o b.branch_name
                              \o (IF b.address # <<>> THEN <<32, 45, 32>> (*  -  *) \o b.address ELSE <<>>)
                              \o (IF b.city # <<>> THEN <<44, 32>> (* ,  *) \o b.city ELSE <<>>)
                              \o <<10>>
                         ELSE <<>>
                           : b \in {CHOOSE x \in branch : TRUE}})
                ELSE IF doctor.branch_id # <<>>
                THEN <<128205, 32, 1575, 1604, 1601, 1585, 1593, 58, 32>> (* 📍 الفرع:  *) \o doctor.branch_id \o <<10>>
                ELSE <<>>)
            \o (IF doctor.days # <<>>
                THEN <<9200, 32, 1575, 1604, 1583, 1608, 1575, 1605, 58, 32>> (* ⏰ الدوام:  *) \o doctor.days \o <<10>> ELSE <<>>)
            \o (IF doctor.time_from # <<>> /\ doctor.time_to # <<>>
                THEN <<9200, 32, 1575, 1604, 1608, 1602, 1578, 58, 32>> (* ⏰ الوقت:  *) \o doctor.time_from \o <<32, 45, 32>> (*  -  *) \o doctor.time_to \o <<10>>
                ELSE <<>>))
          : branch \in {IF doctor.branch_id # <<>> THEN get_branch_by_id(branches, doctor.branch_id) ELSE {}}})

\* the doctors of the k-th specialty keyword
Filtered(doctors, k) ==
    SelectSeq(doctors, LAMBDA doc : normalize_ar(doc.specialty) = SPECIALTY_KEYWORDS[k])

\* a reply that is a text, not a doctor's card
TextReply(text) == [doctor |-> 0, text |-> text]

\* _respond_directly for intent doctor, lines 349-449, on the doctors read:
\* the replies it can give (the name lookup is a fuzzy match), each as
\* [doctor, text]: the text of the reply, or the index of the doctor whose
\* card is the reply (the card reads the doctor's branch).
RespondDoctor(doctors, entities, message) ==
    Only({Only({Only({\* the loop stops at the first keyword with doctors, else ends on the last hit
    Only({Only({Only({Only({\* doctor_name_from_entity, None when empty or absent
    Only({Only({IF doctors = <<>> THEN {TextReply(<<9888, 65039, 32, 1605, 1575, 32, 1604, 1602, 1610, 1578, 32, 1571, 1591, 1576, 1575, 1569, 32, 1605, 1578, 1575, 1581, 1610, 1606, 32, 1581, 1575, 1604, 1610, 1575, 1611, 46>> (* ⚠️ ما لقيت أطباء متاحين حالياً. *))}
            ELSE IF k_found # 0 /\ filtered_doctors # <<>> /\ listed # <<>>
            THEN {TextReply(<<127973, 32, 1571, 1591, 1576, 1575, 1569, 32>> (* 🏥 أطباء  *) \o SPECIALTY_NAMES[k_found] \o <<58>> (* : *) \o <<10, 10>>
                        \o Numbered(listed, <<10>>))}
            ELSE IF name # None
            THEN {IF i = 0 THEN TextReply(<<9888, 65039, 32, 1605, 1575, 32, 1604, 1602, 1610, 1578, 32, 1591, 1576, 1610, 1576, 32, 1576, 1575, 1587, 1605, 32, 39>> (* ⚠️ ما لقيت طبيب باسم ' *) \o name \o <<39, 46>> (* '. *))
                  ELSE [doctor |-> i, text |-> <<>>]
                  : i \in find_doctor_by_name(doctors, name)}
            ELSE Only({IF all # <<>>
                     THEN {TextReply(<<127973, 32, 1575, 1604, 1571, 1591, 1576, 1575, 1569, 32, 1575, 1604, 1605, 1578, 1575, 1581, 1608, 1606, 58, 10, 10>> (* 🏥 الأطباء المتاحون:\n\n *) \o Numbered(all, <<10>>))}
                     ELSE {TextReply(<<9888, 65039, 32, 1605, 1575, 32, 1604, 1602, 1610, 1578, 32, 1571, 1591, 1576, 1575, 1569, 32, 1605, 1578, 1575, 1581, 1610, 1606, 46>> (* ⚠️ ما لقيت أطباء متاحين. *))}
                       : all \in {DoctorList(doctors)}})
          : listed \in {DoctorList(filtered_doctors)}})
          : name \in {IF from_entity # <<>> /\ from_entity[1].value # <<>> THEN from_entity[1].value
        ELSE IF k_found = 0 /\ in_message # {} THEN doctors[Least(in_message)].doctor_name
        ELSE None}})
          : in_message \in {{i \in 1..Len(doctors) :
            /\ doctors[i].doctor_name # <<>>
            /\ \E part \in Range(split(lower(doctors[i].doctor_name))) :
                   Len(part) > 3 /\ contains(message_lower, part)}}})
          : from_entity \in {SelectSeq(entities, LAMBDA e : e.type = "doctor_name")}})
          : filtered_doctors \in {IF k_found = 0 THEN doctors ELSE Filtered(doctors, k_found)}})
          : k_found \in {IF full # {} THEN Least(full)
        ELSE IF hit # {} THEN CHOOSE k \in hit : \A j \in hit : j <= k
        ELSE 0}})
          : full \in {{k \in hit : Filtered(doctors, k) # <<>>}}})
          : hit \in {{k \in 1..Len(SPECIALTY_KEYWORDS) : contains(message_lower, SPECIALTY_KEYWORDS[k])}}})
          : message_lower \in {lower(normalize_ar(message))}})

\* _respond_directly for intent service, lines 451-466
RespondService(services) ==
    Only({Only({IF services = <<>> THEN <<9888, 65039, 32, 1605, 1575, 32, 1604, 1602, 1610, 1578, 32, 1582, 1583, 1605, 1575, 1578, 32, 1605, 1578, 1575, 1581, 1577, 32, 1581, 1575, 1604, 1610, 1575, 1611, 46>> (* ⚠️ ما لقيت خدمات متاحة حالياً. *)
        ELSE IF service_list # <<>>
        THEN <<128176, 32, 1575, 1604, 1582, 1583, 1605, 1575, 1578, 32, 1575, 1604, 1605, 1578, 1575, 1581, 1577, 58, 10, 10>> (* 💰 الخدمات المتاحة:\n\n *) \o Numbered(service_list, <<10>>)
        ELSE <<9888, 65039, 32, 1605, 1575, 32, 1604, 1602, 1610, 1578, 32, 1582, 1583, 1605, 1575, 1578, 32, 1605, 1578, 1575, 1581, 1577, 46>> (* ⚠️ ما لقيت خدمات متاحة. *)
          : service_list \in {
            [i \in 1..Len(named) |->
                named[i].service_name
                \o (IF named[i].price_sar # <<>>
                    THEN <<32, 45, 32>> (*  -  *) \o named[i].price_sar \o <<32, 1585, 1610, 1575, 1604>> (*  ريال *) ELSE <<>>)]}})
          : named \in {SelectSeq(services, LAMBDA svc : svc.service_name # <<>>)}})

\* a branch reply that lists the rows without a name too
RespondBranch_all(branches) ==
    <<128205, 32, 1575, 1604, 1601, 1585, 1608, 1593, 58, 10, 10>> (* 📍 الفروع:\n\n *)
    \o Numbered([i \in 1..Len(branches) |-> branches[i].branch_name], <<10>>)

\* _respond_directly for intent branch, lines 468-484
RespondBranch(branches) ==
    Only({Only({IF branches = <<>> THEN <<9888, 65039, 32, 1605, 1575, 32, 1604, 1602, 1610, 1578, 32, 1601, 1585, 1608, 1593, 32, 1605, 1578, 1575, 1581, 1577, 32, 1581, 1575, 1604, 1610, 1575, 1611, 46>> (* ⚠️ ما لقيت فروع متاحة حالياً. *)
        ELSE IF branch_list # <<>>
        THEN <<128205, 32, 1575, 1604, 1601, 1585, 1608, 1593, 58, 10, 10>> (* 📍 الفروع:\n\n *) \o Numbered(branch_list, <<10>>)
        ELSE <<9888, 65039, 32, 1605, 1575, 32, 1604, 1602, 1610, 1578, 32, 1601, 1585, 1608, 1593, 32, 1605, 1578, 1575, 1581, 1577, 46>> (* ⚠️ ما لقيت فروع متاحة. *)
          : branch_list \in {
            [i \in 1..Len(named) |->
                named[i].branch_name
                \o (IF named[i].address # <<>> /\ named[i].city # <<>>
                    THEN <<32, 45, 32>> (*  -  *) \o named[i].address \o <<44, 32>> (* ,  *) \o named[i].city
                    ELSE IF named[i].address # <<>> THEN <<32, 45, 32>> (*  -  *) \o named[i].address
                    ELSE <<>>)]}})
          : named \in {SelectSeq(branches, LAMBDA b : b.branch_name # <<>>)}})

\* ------------------------------------------------------------------------
\* core/router.py: Router.process.  The world a request runs in is
\* w = [db, d, router]: the tables, the reference data [data_handler, cache]
\* and the router's own objects [_intent_cache, _doctor_names,
\* _response_cache].  What the request meets outside the program is
\* env = [now, up, intent_answers, agent_answers, history_ok]: the clock,
\* whether the sheet can be fetched, what the two models may answer, whether
\* the commit of the turn succeeds.  process returns the set of its
\* possible outcomes [raised, response, db, d, router, branch, calls].
\* ------------------------------------------------------------------------

NoCalls ==
    [process |-> 0, classify |-> 0, generate_response |-> 0, add_to_context |-> 0,
     process_message |-> 0]

\* context_manager.add_to_context(...); return response
Return(w, user_id, platform, message, response, branch, calls, env) ==
    [raised |-> FALSE, response |-> response,
     db |-> [w.db EXCEPT !.conversation_history =
                 add_to_context(@, user_id, platform, message, response, env.history_ok)],
     d |-> w.d, router |-> w.router, branch |-> branch,
     calls |-> [calls EXCEPT !.add_to_context = @ + 1]]

\* an exception leaves process
Raise(w, branch, calls) ==
    [raised |-> TRUE, response |-> None, db |-> w.db, d |-> w.d, router |-> w.router,
     branch |-> branch, calls |-> calls]

\* response = self._use_llm(...), then the add_to_context and return that
\* follow it at every call site
_use_llm(w, user_id, platform, message, intent, entities, has_relevant, history, branch, calls, env) ==
    {IF a.raised
     THEN Raise([w EXCEPT !.d = a.d], branch, [calls EXCEPT !.generate_response = @ + 1])
     ELSE Return([w EXCEPT !.d = a.d, !.router._response_cache = a._response_cache],
                 user_id, platform, message, a.response_text, branch,
                 [calls EXCEPT !.generate_response = @ + 1], env)
     : a \in generate_response(w.router, w.d, message, intent, entities, has_relevant,
                               history, env.now, env.up, env.agent_answers)}

\* lines 128: the parts of a doctor's name, titles removed
name_parts(doctor_name_full) ==
    split(strip(remove(remove(remove(lower(doctor_name_full), <<1583, 46>> (* د. *)), <<1583, 1603, 1578, 1608, 1585, 1577>> (* دكتورة *)), <<1583, 1603, 1578, 1608, 1585>> (* دكتور *))))

\* turn i of the history names doctor j
Mentions(history, doctors, i, j) ==
    \E part \in Range(name_parts(doctors[j].doctor_name)) :
        /\ Len(part) > 3
        /\ \/ contains(lower(history[i].message), part)
           \/ contains(lower(history[i].response), part)

\* lines 117-138: the doctor named in the recent conversation, None if none.
\* The scan goes through conversation_history[:5] backwards and, for each
\* turn, through the doctors in order.
HistoryDoctor(history, doctors) ==
    Only({IF turns = {} THEN None
        ELSE Only({doctors[Least({j \in 1..Len(doctors) :
                                   Mentions(history, doctors, i, j)})].doctor_name
                   : i \in {CHOOSE x \in turns : \A y \in turns : y <= x}})
          : turns \in {{i \in 1..(IF Len(history) < 5 THEN Len(history) ELSE 5) :
            \E j \in 1..Len(doctors) : Mentions(history, doctors, i, j)}}})

\* lines 70-79: the greeting re-check of an unclear message
IsRouterGreeting(message) ==
    Only({Only({\/ message_clean \in ROUTER_SIMPLE_GREETINGS
        \/ message_original_lower \in ROUTER_SIMPLE_GREETINGS
        \/ startswith(message_clean, <<1607, 1604, 1575>> (* هلا *)) \/ startswith(message_clean, <<1575, 1607, 1604, 1575>> (* اهلا *))
        \/ startswith(message_original_lower, <<1607, 1604, 1575>> (* هلا *))
        \/ startswith(message_original_lower, <<1575, 1607, 1604, 1575>> (* اهلا *))
          : message_original_lower \in {lower(strip(message))}})
          : message_clean \in {SelectSeq(strip(lower(normalize_ar(message))), LAMBDA c : c \notin {32, 1548, 44})}})

\* truthiness of a text that may be None
Truthy(text) == text # None /\ text # <<>>

\* the world after the read r of the reference data
Read(w, r) == [w EXCEPT !.d = r.d]

\* lines 245-258: _gather_relevant_data reads the three lists, then the agent
Agent(w, user_id, platform, message, intent, entities, history, calls, env) ==
    Only({IF gathered.raised THEN {Raise(Read(w, gathered), "agent", calls)}
          ELSE _use_llm(Read(w, gathered), user_id, platform, message, intent, entities,
                        TRUE, history, "agent", calls, env)
          : gathered \in {get_each(w.d, TABLES, env.now, env.up)}})

\* a router that asks the agent whatever _respond_directly returned
Direct_falls(w, user_id, platform, message, intent, entities, history, response, calls, env) ==
    Agent(w, user_id, platform, message, intent, entities, history, calls, env)

\* lines 239-243: the reply of _respond_directly is returned `if response`,
\* and the agent is asked otherwise
Direct(w, user_id, platform, message, intent, entities, history, response, calls, env) ==
    IF Truthy(response)
    THEN {Return(w, user_id, platform, message, response, "direct", calls, env)}
    ELSE Agent(w, user_id, platform, message, intent, entities, history, calls, env)

\* lines 165-258: what process does once the booking branch is behind it
Respond(w, user_id, platform, message, intent, entities, history, calls, env) ==
    IF intent = "hours"
    THEN Only({{IF branches.raised THEN Raise(Read(w, branches), "hours", calls)
              ELSE Return(Read(w, branches), user_id, platform, message,
                          IF branches.rows = <<>> THEN NO_HOURS_REPLY
                          ELSE HoursReply(branches.rows), "hours", calls, env)}
               : branches \in {get_rows(w.d, "branches", env.now, env.up)}})
    ELSE IF intent = "thanks"
    THEN {Return(w, user_id, platform, message, THANKS_REPLY, "thanks", calls, env)}
    ELSE IF intent = "goodbye"
    THEN {Return(w, user_id, platform, message, GOODBYE_REPLY, "goodbye", calls, env)}
    ELSE IF intent = "contact"
    THEN Only({{IF branches.raised THEN Raise(Read(w, branches), "contact", calls)
              ELSE Return(Read(w, branches), user_id, platform, message,
                          IF branches.rows = <<>> THEN NO_CONTACT_REPLY
                          ELSE ContactReply(branches.rows), "contact", calls, env)}
               : branches \in {get_rows(w.d, "branches", env.now, env.up)}})
    ELSE IF intent = "faq" /\ ~any_in({<<1603, 1610, 1601>> (* كيف *), <<1591, 1585, 1610, 1602, 1577>> (* طريقة *), <<1582, 1591, 1608, 1575, 1578>> (* خطوات *)}, lower(message))
    THEN {Return(w, user_id, platform, message, FAQ_REPLY, "faq", calls, env)}
    ELSE IF intent = "doctor"
    THEN Only({IF doctors.raised THEN {Raise(Read(w, doctors), "direct", calls)}
             ELSE UNION {IF o.doctor = 0
                   THEN Direct(Read(w, doctors), user_id, platform, message, intent, entities,
                               history, o.text, calls, env)
                   ELSE IF doctors.rows[o.doctor].branch_id = <<>>
                   THEN Direct(Read(w, doctors), user_id, platform, message, intent, entities,
                               history, DoctorCard(doctors.rows[o.doctor], <<>>), calls, env)
                   ELSE Only({IF b.raised THEN {Raise(Read(w, b), "direct", calls)}
                            ELSE Direct(Read(w, b), user_id, platform, message, intent,
                                        entities, history,
                                        DoctorCard(doctors.rows[o.doctor], b.rows), calls, env)
                              : b \in {get_rows(doctors.d, "branches", env.now, env.up)}})
                   : o \in RespondDoctor(doctors.rows, entities, message)}
               : doctors \in {get_rows(w.d, "doctors", env.now, env.up)}})
    ELSE IF intent = "service"
    THEN Only({IF services.raised THEN {Raise(Read(w, services), "direct", calls)}
             ELSE Direct(Read(w, services), user_id, platform, message, intent, entities,
                         history, RespondService(services.rows), calls, env)
               : services \in {get_rows(w.d, "services", env.now, env.up)}})
    ELSE IF intent = "branch"
    THEN Only({IF branches.raised THEN {Raise(Read(w, branches), "direct", calls)}
             ELSE Direct(Read(w, branches), user_id, platform, message, intent, entities,
                         history, RespondBranch(branches.rows), calls, env)
               : branches \in {get_rows(w.d, "branches", env.now, env.up)}})
    ELSE Agent(w, user_id, platform, message, intent, entities, history, calls, env)

\* a router that starts a booking whatever the message
Booking_eager(w, user_id, platform, message, intent, next_action, entities, history, calls, env) ==
    {Return([w EXCEPT !.db.conversation_state = set_state(@, user_id, platform, "name", <<>>)],
            user_id, platform, message, format_booking_question("name", <<>>),
            "booking_start", calls, env)}

\* lines 103-163: the booking intent, then the rest
Booking(w, user_id, platform, message, intent, next_action, entities, history, calls, env) ==
    Only({Only({Only({Only({Only({Only({Only({Only({Only({Only({Only({IF (is_booking_request \/ asked) /\ scan /\ doctors.raised
        THEN {Raise(w1, "booking_start", calls)}
        ELSE IF (is_booking_request \/ asked) /\ is_explicit_booking
        THEN IF Truthy(doctor_name)
             THEN {Return([w1 EXCEPT !.db = [cleared EXCEPT !.conversation_state =
                               set_state(@, user_id, platform, "name",
                                         Put(<<>>, "doctor_name", doctor_name))]],
                          user_id, platform, message,
                          <<9989, 32, 1581, 1580, 1586, 32, 1593, 1606, 1583, 32>> (* ✅ حجز عند  *) \o doctor_name \o <<10, 10, 1605, 1575, 32, 1575, 1587, 1605, 1603, 1567>> (* \n\nما اسمك؟ *),
                          "booking_start", calls, env)}
             ELSE Only({{Return([w1 EXCEPT !.db = started.db], user_id, platform, message,
                              started.response, "booking_start",
                              [calls EXCEPT !.process_message = @ + 1], env)}
                        : started \in {process_message(cleared, user_id, platform, message, env.now)}})
        ELSE IF (is_booking_request \/ asked) /\ intent = "booking"
                /\ next_action # "start_booking"
        THEN _use_llm(w1, user_id, platform, message, intent, entities, FALSE, history,
                      "booking_clarify", calls, env)
        \* outside the block of line 110 nothing was read: the world is w
        ELSE Respond(IF is_booking_request \/ asked THEN w1 ELSE w,
                     user_id, platform, message, intent, entities, history, calls,
                     env)
          : cleared \in {[w1.db EXCEPT !.conversation_state = clear_state(@, user_id, platform)]}})
          : is_explicit_booking \in {/\ strip(message_lower) \notin BARE_BOOKING_WORDS
        /\ \/ is_booking_request \/ asked
           \/ /\ Truthy(doctor_name)
              /\ (contains(message_lower, <<1593, 1606, 1583>> (* عند *)) \/ contains(message_lower, <<1593, 1606, 1583, 1607>> (* عنده *)))}})
          : w1 \in {IF scan THEN [w EXCEPT !.d = doctors.d] ELSE w}})
          : doctor_name \in {IF ~scan THEN from_entities
        ELSE IF doctors.raised THEN None
        ELSE HistoryDoctor(history, doctors.rows)}})
          : doctors \in {get_rows(w.d, "doctors", env.now, env.up)}})
          : scan \in {~Truthy(from_entities) /\ history # <<>>}})
          : from_entities \in {IF named # <<>> THEN named[1].value ELSE None}})
          : named \in {SelectSeq(entities, LAMBDA e : e.type = "doctor_name")}})
          : asked \in {intent = "booking" /\ next_action = "start_booking"}})
          : is_booking_request \in {any_in(EXPLICIT_BOOKING_KEYWORDS, message_lower)}})
          : message_lower \in {strip(lower(message))}})

\* lines 61-101: the message is classified; unclear and general go to the agent
Classified(w, user_id, platform, message, result, history, calls, env) ==
    Only({Only({IF intent \in {"unclear", "general"}
        THEN _use_llm(w, user_id, platform, message, intent, result.entities, FALSE,
                      history, intent, calls, env)
        ELSE Booking(w, user_id, platform, message, intent,
                     IF regreet THEN "use_llm" ELSE result.next_action, result.entities,
                     history, calls, env)
          : intent \in {IF regreet THEN "greeting" ELSE result.intent}})
          : regreet \in {result.intent = "unclear" /\ IsRouterGreeting(message)}})

\* Router.process
process(w, user_id, platform, message, env) ==
    IF get_state(w.db.conversation_state, user_id, platform) # {}
    THEN IF any_in(CANCEL_WORDS, strip(lower(message)))
         THEN {Return([w EXCEPT !.db.conversation_state = clear_state(@, user_id, platform)],
                      user_id, platform, message, CANCEL_REPLY, "cancel", NoCalls, env)}
         ELSE Only({{Return([w EXCEPT !.db = step.db], user_id, platform, message,
                          step.response, "booking_step",
                          [NoCalls EXCEPT !.process_message = 1], env)}
                    : step \in {process_message(w.db, user_id, platform, message, env.now)}})
    ELSE Only({UNION {Classified([w EXCEPT !.router._intent_cache = c._intent_cache],
                               user_id, platform, message, c.result, history,
                               [NoCalls EXCEPT !.classify = 1], env)
                    : c \in classify(w.router, message, env.now, env.intent_answers)}
               : history \in {get_recent_context(w.db.conversation_history, user_id, platform, 10)}})

\* ------------------------------------------------------------------------
\* The system: one process serving routes/chat.py and routes/webhook.py over
\* one database.  Every handler is a coroutine that holds the event loop
\* from its last await to its return, so a handler body is one step.
\* ------------------------------------------------------------------------

\* Bounds of the exploration
MaxTurns == 2
MaxClock == 120
MaxDeliveries == 4
MaxInFlight == 2

\* the step of the clock between two requests, and the clock at start
TICK == 60
START == 60

\* config.RATE_LIMIT_PER_MINUTE, read from the environment: the deployment sets 2
RATE_LIMIT_PER_MINUTE == 2
window_seconds == 60

U1 == <<57, 54, 54, 53, 48, 48, 48, 48, 48, 49>> (* 9665000001 *)
U2 == <<57, 54, 54, 53, 48, 48, 48, 48, 48, 50>> (* 9665000002 *)
WEB == <<119, 101, 98>> (* web *)
WHATSAPP == <<119, 104, 97, 116, 115, 97, 112, 112>> (* whatsapp *)
INSTAGRAM == <<105, 110, 115, 116, 97, 103, 114, 97, 109>> (* instagram *)

\* the identities the chat API is called for
IDENTITIES == {<<U1, WEB>>, <<U1, WHATSAPP>>, <<U2, WEB>>}

\* what the intent model and the response model can answer
INTENT_ANSWERS ==
    {[ok |-> FALSE],
     [ok |-> TRUE, intent |-> "contact", entities |-> <<>>, confidence |-> 90,
      next_action |-> "use_llm"],
     [ok |-> TRUE, intent |-> "faq", entities |-> <<>>, confidence |-> 80,
      next_action |-> "use_llm"],
     [ok |-> TRUE, intent |-> "booking",
      entities |-> <<Entity("service_name", <<1578, 1606, 1592, 1610, 1601>> (* تنظيف *), 90)>>, confidence |-> 120,
      next_action |-> "start_booking"]}

AGENT_ANSWERS == {[ok |-> FALSE], [ok |-> TRUE, response_text |-> <<1578, 1605, 1575, 1605>> (* تمام *)]}

\* the messages of the booking flows
MESSAGES == {<<1575, 1576, 1610, 32, 1575, 1581, 1580, 1586>> (* ابي احجز *), <<48, 53, 48, 49, 50, 51, 52, 53, 54, 55>> (* 0501234567 *), <<1575, 1604, 1594, 1575, 1569>> (* الغاء *), <<1591, 1604, 1575, 1604>> (* طلال *)}

\* the messages that reach every branch of the router
ROUTER_MESSAGES ==
    {<<1607, 1604, 1575>> (* هلا *), <<1588, 1603, 1585, 1575>> (* شكرا *), <<1605, 1593, 32, 1575, 1604, 1587, 1604, 1575, 1605, 1577>> (* مع السلامة *), <<1581, 1580, 1586>> (* حجز *), <<1575, 1608, 1602, 1575, 1578, 32, 1575, 1604, 1583, 1608, 1575, 1605>> (* اوقات الدوام *), <<1583, 1603, 1578, 1608, 1585, 32, 1575, 1587, 1606, 1575, 1606>> (* دكتور اسنان *),
     <<1608, 1610, 1606, 32, 1575, 1604, 1601, 1585, 1608, 1593>> (* وين الفروع *), <<1575, 1604, 1582, 1583, 1605, 1575, 1578>> (* الخدمات *), <<1575, 1576, 1610, 32, 1575, 1581, 1580, 1586, 32, 1593, 1606, 1583, 32, 1583, 1603, 1578, 1608, 1585, 32, 1587, 1575, 1585, 1577>> (* ابي احجز عند دكتور سارة *),
     <<1604, 1608, 32, 1587, 1605, 1581, 1578, 32, 1575, 1576, 1594, 1609, 32, 1575, 1593, 1585, 1601, 32, 1588, 1610, 32, 1576, 1582, 1589, 1608, 1589, 32, 1575, 1604, 1593, 1610, 1575, 1583, 1577>> (* لو سمحت ابغى اعرف شي بخصوص العيادة *), <<1575, 1604, 1594, 1575, 1569>> (* الغاء *)}

NewRouter(doctor_names) ==
    [_intent_cache |-> {}, _doctor_names |-> doctor_names, _response_cache |-> {}]

EmptyDb == [conversation_state |-> {}, booking_tickets |-> <<>>, conversation_history |-> {}]

\* What an earlier run of the process left in the database: two identities
\* taken through the first five steps of a booking, the first then through
\* the sixth.
EARLIER ==
    <<<<U1, WEB, <<1575, 1576, 1610, 32, 1575, 1581, 1580, 1586>> (* ابي احجز *)>>, <<U1, WEB, <<1587, 1575, 1585, 1577>> (* سارة *)>>, <<U1, WEB, <<48, 53, 48, 49, 50, 51, 52, 53, 54, 55>> (* 0501234567 *)>>,
      <<U1, WEB, <<1578, 1606, 1592, 1610, 1601>> (* تنظيف *)>>, <<U1, WEB, <<1578, 1582, 1591, 1609>> (* تخطى *)>>,
      <<U2, WEB, <<1575, 1576, 1610, 32, 1575, 1581, 1580, 1586>> (* ابي احجز *)>>, <<U2, WEB, <<1589, 1575, 1604, 1581>> (* صالح *)>>, <<U2, WEB, <<48, 53, 53, 57, 56, 55, 54, 53, 52, 51>> (* 0559876543 *)>>,
      <<U2, WEB, <<1603, 1588, 1601>> (* كشف *)>>, <<U2, WEB, <<1601, 1585, 1593, 32, 1575, 1604, 1593, 1604, 1610, 1575>> (* فرع العليا *)>>,
      <<U1, WEB, <<1576, 1603, 1585, 1577>> (* بكرة *)>>>>

\* the earlier run on a platform: the same messages, sent through it
RECURSIVE EarlierRunOn(_, _)
EarlierRunOn(platform, k) ==
    IF k = 0 THEN [db |-> EmptyDb, d |-> [data_handler |-> NewDataHandler, cache |-> {}],
                   router |-> NewRouter(<<>>)]
    ELSE Only({[db |-> o.db, d |-> o.d, router |-> o.router]
               : o \in {CHOOSE x \in process(EarlierRunOn(platform, k - 1), EARLIER[k][1],
                                  platform, EARLIER[k][3],
                                  [now |-> 0, up |-> TRUE, intent_answers |-> {[ok |-> FALSE]},
                                   agent_answers |-> {[ok |-> FALSE]}, history_ok |-> TRUE])
                     : TRUE}})

\* the points at which the earlier run may have stopped
EARLIER_CUTS == {0, 2, 4, 5, 10, 11}

EarlierRun(k) == EarlierRunOn(WEB, k)

EarlierDb(k) == EarlierRun(k).db

\* IntentClassifier.__init__, lines 162-170: the doctor names are loaded once,
\* and stay empty when the load fails
LoadDoctorNames(d, now, up) ==
    Only({[d |-> r.d,
         _doctor_names |-> IF r.raised THEN <<>>
                           ELSE Only({[i \in 1..Len(named) |-> named[i].doctor_name]
                                      : named \in {SelectSeq(r.rows, LAMBDA doc : doc.doctor_name # <<>>)}})]
          : r \in {get_rows(d, "doctors", now, up)}})

NoRequest ==
    [handler |-> "none", user_id |-> None, platform |-> None, message |-> None,
     message_id |-> None, status |-> "none", response |-> None, branch |-> "none",
     calls |-> NoCalls, sent |-> 0, before |-> {}, concurrent |-> FALSE]

\* the booking states of the identity's records, as a request finds them
StatesOf(cs, user_id, platform) ==
    {r.state : r \in {x \in cs : x.user_id = user_id /\ x.platform = platform}}

\* The process starts: app.py imports routes.webhook, then routes.chat, each
\* building its Router; the tables are as an earlier run left them.
StartOn(platform, cuts) ==
    \E k \in cuts, up1 \in BOOLEAN, up2 \in BOOLEAN :
      \E db \in {EarlierRunOn(platform, k).db} :
        \E first \in {LoadDoctorNames([data_handler |-> NewDataHandler, cache |-> {}],
                                      START, up1)} :
          \E second \in {LoadDoctorNames(first.d, START, up2)} :
            /\ conversation_state = db.conversation_state
            /\ booking_tickets = db.booking_tickets
            /\ conversation_history = db.conversation_history
            /\ processed_messages = <<>>
            /\ data_handler = second.d.data_handler
            /\ cache = second.d.cache
            /\ chat_router = [webhook |-> NewRouter(first._doctor_names),
                              chat    |-> NewRouter(second._doctor_names)]
            /\ requests = [u \in {U1, U2} |-> <<>>]
            /\ in_flight = {}
            /\ outbox = <<>>
            /\ clock = START
            /\ served = 0
            /\ last = NoRequest

Start(cuts) == StartOn(WEB, cuts)

Init == Start(EARLIER_CUTS)

\* the world a handler of module `name` runs process in, and what it meets
World(name) ==
    [db |-> [conversation_state |-> conversation_state, booking_tickets |-> booking_tickets,
             conversation_history |-> conversation_history],
     d  |-> [data_handler |-> data_handler, cache |-> cache],
     router |-> chat_router[name]]

Env(up) ==
    [now |-> clock, up |-> up, intent_answers |-> INTENT_ANSWERS,
     agent_answers |-> AGENT_ANSWERS, history_ok |-> TRUE]

\* the outcome o of process becomes the state
Store(o, name) ==
    /\ conversation_state' = o.db.conversation_state
    /\ booking_tickets' = o.db.booking_tickets
    /\ conversation_history' = o.db.conversation_history
    /\ data_handler' = o.d.data_handler
    /\ cache' = o.d.cache
    /\ chat_router' = [chat_router EXCEPT ![name] = o.router]

\* str(e) of the exceptions that leave Router.process: the ValueErrors of
\* data/handler.py 198-254, for a source that is not configured and for a
\* fetch that failed
EXCEPTION_TEXTS ==
    {<<71, 111, 111, 103, 108, 101, 32, 83, 104, 101, 101, 116, 115, 32, 105, 115, 32, 110, 111, 116, 32, 101, 110, 97, 98, 108, 101, 100, 46, 32, 80, 108, 101, 97, 115, 101, 32, 115, 101, 116, 32, 71, 79, 79, 71, 76, 69, 95, 83, 72, 69, 69, 84, 83, 95, 69, 78, 65, 66, 76, 69, 68, 61, 116, 114, 117, 101, 32, 105, 110, 32, 46, 101, 110, 118>> (* Google Sheets is not enabled. Please set GOOGLE_SHEETS_ENABLED=true in .env *),
     <<70, 97, 105, 108, 101, 100, 32, 116, 111, 32, 108, 111, 97, 100, 32, 100, 111, 99, 116, 111, 114, 115, 32, 102, 114, 111, 109, 32, 71, 111, 111, 103, 108, 101, 32, 83, 104, 101, 101, 116, 115, 58, 32, 116, 105, 109, 101, 100, 32, 111, 117, 116>> (* Failed to load doctors from Google Sheets: timed out *)}

INTERNAL_SERVER_ERROR == <<73, 110, 116, 101, 114, 110, 97, 108, 32, 115, 101, 114, 118, 101, 114, 32, 101, 114, 114, 111, 114>> (* Internal server error *)

\* app.py: global_exception_handler, the response for an exception no other
\* handler takes: [status_code, body]
global_exception_handler(exc, is_production) ==
    IF is_production
    THEN [status_code |-> 500, body |-> [error |-> INTERNAL_SERVER_ERROR]]
    ELSE [status_code |-> 500, body |-> [error |-> INTERNAL_SERVER_ERROR, detail |-> exc]]

\* The response for an exception that leaves a route: an HTTPException goes
\* to the framework's own handler, which answers with its status and detail;
\* only other exceptions reach global_exception_handler.
exception_response(kind, status_code, detail, is_production) ==
    IF kind = "HTTPException"
    THEN [status_code |-> status_code, body |-> [detail |-> detail]]
    ELSE global_exception_handler(detail, is_production)

\* The HTTP response of chat_api, lines 53-71: every exception of process is
\* caught and raised again as HTTPException(500, "Error processing message: " + str(e)).
chat_api_response(raised, response, exc, is_production) ==
    IF ~raised THEN [status_code |-> 200, body |-> [response |-> response]]
    ELSE exception_response("HTTPException", 500,
                            <<69, 114, 114, 111, 114, 32, 112, 114, 111, 99, 101, 115, 115, 105, 110, 103, 32, 109, 101, 115, 115, 97, 103, 101, 58, 32>> (* Error processing message:  *) \o exc, is_production)

\* routes/chat.py: chat_api.  http is the response, for ENVIRONMENT set to
\* production (TRUE) and not (FALSE).
ChatApi(user_id, platform, message) ==
    /\ served < MaxTurns
    /\ \E up \in BOOLEAN :
         \E o \in process(World("chat"), user_id, platform, message, Env(up)) :
          \E exc \in IF o.raised THEN EXCEPTION_TEXTS ELSE {None} :
            /\ Store(o, "chat")
            /\ last' = [handler |-> "chat_api", user_id |-> user_id, platform |-> platform,
                        message |-> message, message_id |-> None,
                        status |-> IF o.raised THEN "error" ELSE "ok",
                        response |-> o.response, branch |-> o.branch,
                        calls |-> [o.calls EXCEPT !.process = 1], sent |-> 0,
                        before |-> StatesOf(conversation_state, user_id, platform),
                        concurrent |-> FALSE, exc |-> exc,
                        http |-> [is_production \in BOOLEAN |->
                                     chat_api_response(o.raised, o.response, exc,
                                                       is_production)]]
    /\ served' = served + 1
    /\ UNCHANGED <<processed_messages, requests, in_flight, outbox, clock>>

\* time passes
Tick ==
    /\ clock + TICK <= MaxClock
    /\ clock' = clock + TICK
    /\ UNCHANGED <<conversation_state, booking_tickets, conversation_history,
                   processed_messages, data_handler, cache, chat_router, requests,
                   in_flight, outbox, served, last>>

Next ==
    \/ \E id \in IDENTITIES, message \in MESSAGES : ChatApi(id[1], id[2], message)
    \/ Tick

Spec == Init /\ [][Next]_vars

\* The same system, with the messages that reach every branch of the router
\* sent by one identity.
NextRouter ==
    \/ \E message \in ROUTER_MESSAGES : ChatApi(U1, WEB, message)
    \/ Tick

SpecRouter == Init /\ [][NextRouter]_vars

\* The same system, with the messages of the optional steps and of the ways
\* a booking starts or does not start, sent by one identity.
BOOKING_MESSAGES ==
    {<<1578, 1582, 1591, 1609>> (* تخطى *), <<83, 107, 105, 112>> (* Skip *), <<1604, 1575>> (* لا *), <<>>, <<1601, 1585, 1593, 32, 1575, 1604, 1593, 1604, 1610, 1575>> (* فرع العليا *), <<48, 53, 48, 49, 50, 51, 52, 53, 54, 55>> (* 0501234567 *),
     <<1575, 1576, 1610, 32, 1575, 1581, 1580, 1586, 32, 1593, 1606, 1583, 32, 1583, 1603, 1578, 1608, 1585, 32, 1587, 1575, 1585, 1577>> (* ابي احجز عند دكتور سارة *), <<1581, 1580, 1586>> (* حجز *), <<1575, 1581, 1580, 1586>> (* احجز *), <<1605, 1608, 1593, 1583>> (* موعد *)}

NextBooking ==
    \/ \E message \in BOOKING_MESSAGES : ChatApi(U1, WEB, message)
    \/ Tick

SpecBooking == Init /\ [][NextBooking]_vars

\* ------------------------------------------------------------------------
\* routes/webhook.py and middleware/rate_limit.py
\* ------------------------------------------------------------------------

RATE_LIMITED_REPLY == <<9888, 65039, 32, 1603, 1579, 1585, 1577, 32, 1575, 1604, 1585, 1587, 1575, 1574, 1604, 46, 32, 1575, 1606, 1578, 1592, 1585, 32, 1588, 1608, 1610, 46>> (* ⚠️ كثرة الرسائل. انتظر شوي. *)

\* a check that never marks the delivery
check_message_dedupe_forgets(pm, platform, message_id) ==
    [existing |-> \E i \in 1..Len(pm) : pm[i].platform = platform /\ pm[i].message_id = message_id,
     processed_messages |-> pm]

\* a check that never looks
check_message_dedupe_blind(pm, platform, message_id) ==
    [existing |-> FALSE,
     processed_messages |-> Append(pm, [platform |-> platform, message_id |-> message_id])]

\* check_message_dedupe: [existing, processed_messages]
check_message_dedupe(pm, platform, message_id) ==
    IF message_id = <<>> THEN [existing |-> FALSE, processed_messages |-> pm]
    ELSE IF \E i \in 1..Len(pm) : pm[i].platform = platform /\ pm[i].message_id = message_id
    THEN [existing |-> TRUE, processed_messages |-> pm]
    ELSE [existing |-> FALSE,
          processed_messages |-> Append(pm, [platform |-> platform, message_id |-> message_id])]

\* RateLimiter.is_allowed: [allowed, requests]
is_allowed(reqs, user_id, now) ==
    LET cutoff == now - window_seconds
        kept   == SelectSeq(reqs[user_id], LAMBDA ts : ts > cutoff)
    IN  IF Len(kept) >= RATE_LIMIT_PER_MINUTE
        THEN [allowed |-> FALSE, requests |-> [reqs EXCEPT ![user_id] = kept]]
        ELSE [allowed |-> TRUE, requests |-> [reqs EXCEPT ![user_id] = Append(kept, now)]]

\* metadata.get("message_id", ""): only the WhatsApp adapter puts it there
MessageId(req) == IF req.platform = WHATSAPP THEN req.message_id ELSE <<>>

\* two requests carry the same delivery
Twin(r, q) ==
    /\ r.platform = q.platform /\ MessageId(r) = MessageId(q) /\ MessageId(r) # <<>>
    /\ r.user_id = q.user_id /\ r.message_text = q.message_text

\* two requests come from the same identity
SameIdentity(r, q) == r.platform = q.platform /\ r.user_id = q.user_id

\* A webhook handler up to `body = await request.json()`: the request is
\* taken, its body arrives, and the handler waits for the event loop.  The
\* request_id (a uuid4) is named by the least number no waiting request has;
\* overlap notes that a request carrying the same delivery waited at the
\* same time, beside that a request of the same identity did.
Receive(platform, user_id, message_text, message_id) ==
    /\ served < MaxDeliveries
    /\ Cardinality(in_flight) < MaxInFlight
    /\ LET new == [request_id |-> Least({n \in 1..MaxInFlight :
                                             \A r \in in_flight : r.request_id # n}),
                    platform |-> platform, user_id |-> user_id,
                    message_text |-> message_text, message_id |-> message_id,
                    overlap |-> FALSE, beside |-> FALSE]
       IN  in_flight' = {[r EXCEPT !.overlap = @ \/ Twin(r, new),
                                    !.beside = @ \/ SameIdentity(r, new)] : r \in in_flight}
                            \cup {[new EXCEPT !.overlap = \E r \in in_flight : Twin(r, new),
                                              !.beside = \E r \in in_flight :
                                                            SameIdentity(r, new)]}
    /\ served' = served + 1
    /\ UNCHANGED <<conversation_state, booking_tickets, conversation_history,
                   processed_messages, data_handler, cache, chat_router, requests,
                   outbox, clock, last>>

\* A webhook handler from parse_incoming to its return, for the request req.
Webhook(req, handler) ==
    LET dedupe == check_message_dedupe(processed_messages, req.platform, MessageId(req))
        limit  == is_allowed(requests, req.user_id, clock)
        Done(status, response, branch, calls, sent) ==
            last' = [handler |-> handler, user_id |-> req.user_id, platform |-> req.platform,
                     message |-> req.message_text, message_id |-> MessageId(req),
                     status |-> status, response |-> response, branch |-> branch,
                     calls |-> calls, sent |-> sent,
                     before |-> StatesOf(conversation_state, req.user_id, req.platform),
                     concurrent |-> req.overlap \/ \E r \in in_flight \ {req} : Twin(r, req),
                     beside |-> req.beside]
        Send(text) == Append(outbox, [user_id |-> req.user_id, platform |-> req.platform,
                                      text |-> text, message_id |-> MessageId(req)])
    IN  /\ in_flight' = in_flight \ {req}
        /\ UNCHANGED <<clock, served>>
        /\ IF req.user_id = <<>> \/ req.message_text = <<>>
           THEN /\ Done("ignored", None, "none", NoCalls, 0)
                /\ UNCHANGED <<conversation_state, booking_tickets, conversation_history,
                               processed_messages, data_handler, cache, chat_router,
                               requests, outbox>>
           ELSE IF dedupe.existing
           THEN /\ Done("already_processed", None, "none", NoCalls, 0)
                /\ UNCHANGED <<conversation_state, booking_tickets, conversation_history,
                               processed_messages, data_handler, cache, chat_router,
                               requests, outbox>>
           ELSE IF ~limit.allowed
           THEN /\ processed_messages' = dedupe.processed_messages
                /\ requests' = limit.requests
                /\ outbox' = Send(RATE_LIMITED_REPLY)
                /\ Done("rate_limited", RATE_LIMITED_REPLY, "none", NoCalls, 1)
                /\ UNCHANGED <<conversation_state, booking_tickets, conversation_history,
                               data_handler, cache, chat_router>>
           ELSE /\ processed_messages' = dedupe.processed_messages
                /\ requests' = limit.requests
                /\ \E up \in BOOLEAN :
                     \E o \in process(World("webhook"), req.user_id, req.platform,
                                      req.message_text, Env(up)) :
                        /\ Store(o, "webhook")
                        /\ outbox' = IF o.raised THEN outbox ELSE Send(o.response)
                        /\ Done(IF o.raised THEN "error" ELSE "ok", o.response, o.branch,
                                [o.calls EXCEPT !.process = 1], IF o.raised THEN 0 ELSE 1)

whatsapp_webhook ==
    \E req \in in_flight : req.platform = WHATSAPP /\ Webhook(req, "whatsapp_webhook")

\* tiktok_webhook is the same code with the TikTok adapter
instagram_webhook ==
    \E req \in in_flight : req.platform = INSTAGRAM /\ Webhook(req, "instagram_webhook")

WAMID == <<119, 97, 109, 105, 100, 46, 49>> (* wamid.1 *)

\* the deliveries the platforms make: <<platform, user_id, message_text, message_id>>
DELIVERIES ==
    {<<WHATSAPP, U1, <<1607, 1604, 1575>> (* هلا *), WAMID>>, <<WHATSAPP, U1, <<1607, 1604, 1575>> (* هلا *), <<>>>>,
     <<WHATSAPP, U1, <<>>, WAMID>>, <<INSTAGRAM, U1, <<1607, 1604, 1575>> (* هلا *), <<>>>>}

NextWebhook ==
    \/ \E x \in DELIVERIES : Receive(x[1], x[2], x[3], x[4])
    \/ whatsapp_webhook
    \/ instagram_webhook
    \/ Tick

\* the webhooks of a process started over an empty database
InitWebhook == Start({0})

SpecWebhook == InitWebhook /\ [][NextWebhook]_vars

\* Messages of one WhatsApp identity whose booking waits for the date, two
\* of them taken before either is handled.
CONCURRENT_DELIVERIES ==
    {<<WHATSAPP, U1, <<1576, 1603, 1585, 1577>> (* بكرة *), WAMID>>, <<WHATSAPP, U1, <<1576, 1603, 1585, 1577>> (* بكرة *), <<119, 97, 109, 105, 100, 46, 50>> (* wamid.2 *)>>,
     <<WHATSAPP, U1, <<1575, 1604, 1587, 1575, 1593, 1577, 32, 53>> (* الساعة 5 *), <<119, 97, 109, 105, 100, 46, 51>> (* wamid.3 *)>>}

NextConcurrent ==
    \/ \E x \in CONCURRENT_DELIVERIES : Receive(x[1], x[2], x[3], x[4])
    \/ whatsapp_webhook

InitConcurrent == StartOn(WHATSAPP, {5})

SpecConcurrent == InitConcurrent /\ [][NextConcurrent]_vars

\* Both doors of the process: the webhooks and the chat API, the same user
\* writing through each.
NextInbound ==
    \/ \E x \in DELIVERIES : Receive(x[1], x[2], x[3], x[4])
    \/ whatsapp_webhook
    \/ instagram_webhook
    \/ ChatApi(U1, WEB, <<1607, 1604, 1575>> (* هلا *))
    \/ Tick

SpecInbound == InitWebhook /\ [][NextInbound]_vars

\* ------------------------------------------------------------------------
\* The classifier alone: one IntentClassifier, built when the process starts
\* (its doctor names loaded or not), is given messages one at a time, the
\* intent model answering each call it gets in one of the ways below.
\* ------------------------------------------------------------------------

MaxClassified == 2

\* the messages: one for every rule of classify, two that normalize to the
\* same text and that no rule decides, and one that nothing matches
CLASSIFY_MESSAGES ==
    {<<>>, <<1607, 1604, 1575>> (* هلا *), <<1588, 1603, 1585, 1575>> (* شكرا *), <<1605, 1593, 32, 1575, 1604, 1587, 1604, 1575, 1605, 1577>> (* مع السلامة *), <<1581, 1580, 1586>> (* حجز *), <<1575, 1581, 1580, 1586, 32, 1593, 1606, 1583, 32, 1583, 46, 32, 1587, 1575, 1585, 1577, 32, 1575, 1604, 1602, 1581, 1591, 1575, 1606, 1610>> (* احجز عند د. سارة القحطاني *),
     <<1575, 1608, 1602, 1575, 1578, 32, 1575, 1604, 1583, 1608, 1575, 1605>> (* اوقات الدوام *), <<1575, 1604, 1582, 1583, 1605, 1575, 1578>> (* الخدمات *), <<1605, 1610, 1606, 32, 1575, 1604, 1575, 1591, 1576, 1575, 1569, 32, 1593, 1606, 1583, 1603, 1605, 32, 1575, 1604, 1610, 1608, 1605>> (* مين الاطباء عندكم اليوم *), <<1608, 1610, 1606, 32, 1605, 1608, 1602, 1593, 32, 1575, 1604, 1593, 1610, 1575, 1583, 1577, 32, 1576, 1575, 1604, 1590, 1576, 1591>> (* وين موقع العيادة بالضبط *),
     <<1593, 1606, 1583, 1610, 32, 1587, 1572, 1575, 1604, 32, 1593, 1606, 32, 1575, 1604, 1593, 1610, 1575, 1583, 1577>> (* عندي سؤال عن العيادة *), <<1603, 1605, 32, 1587, 1593, 1585, 32, 1578, 1606, 1592, 1610, 1601, 32, 1575, 1604, 1575, 1587, 1606, 1575, 1606>> (* كم سعر تنظيف الاسنان *), <<32, 1603, 1605, 32, 1587, 1593, 1585, 32, 1578, 1606, 1592, 1610, 1601, 32, 1575, 1604, 1571, 1587, 1606, 1575, 1606, 32>> (*  كم سعر تنظيف الأسنان  *),
     <<1604, 1608, 32, 1587, 1605, 1581, 1578, 32, 1575, 1576, 1594, 1609, 32, 1575, 1593, 1585, 1601, 32, 1588, 1610, 32, 1576, 1582, 1589, 1608, 1589, 32, 1575, 1604, 1593, 1610, 1575, 1583, 1577>> (* لو سمحت ابغى اعرف شي بخصوص العيادة *)}

\* the ways the intent model answers a call: it fails; its output does not
\* validate; it answers booking with and without a key entity; it answers
\* outside the documented vocabulary
CLASSIFY_ANSWERS ==
    {[ok |-> FALSE],
     [ok |-> TRUE, intent |-> "faq", entities |-> <<>>, confidence |-> 120,
      next_action |-> "use_llm"],
     [ok |-> TRUE, intent |-> "booking", entities |-> <<>>, confidence |-> 100,
      next_action |-> "start_booking"],
     [ok |-> TRUE, intent |-> "booking",
      entities |-> <<Entity("service_name", <<1578, 1606, 1592, 1610, 1601>> (* تنظيف *), 90)>>, confidence |-> 0,
      next_action |-> "use_llm"],
     [ok |-> TRUE, intent |-> "complaint", entities |-> <<Entity("topic", <<1578, 1606, 1592, 1610, 1601>> (* تنظيف *), 50)>>,
      confidence |-> 70, next_action |-> "escalate"]}

\* the calls made before this one, oldest first, for the properties to read
Earlier ==
    IF last.handler = "classify"
    THEN Append(last.earlier, [message |-> last.message, answer |-> last.answer,
                               result |-> last.result, model_called |-> last.model_called,
                               at |-> last.at])
    ELSE <<>>

\* intent_classifier.classify(message), the model answering `data` if it is
\* asked; at most `calls` calls are followed
ClassifyWithin(calls, message, data) ==
    /\ served < calls
    /\ \E c \in classify(chat_router.chat, message, clock, {data}) :
          /\ chat_router' = [chat_router EXCEPT !.chat._intent_cache = c._intent_cache]
          /\ last' = [handler |-> "classify", message |-> message, answer |-> data,
                      result |-> c.result, model_called |-> c.model_called,
                      at |-> clock, earlier |-> Earlier]
    /\ served' = served + 1
    /\ UNCHANGED <<conversation_state, booking_tickets, conversation_history,
                   processed_messages, data_handler, cache, requests, in_flight, outbox,
                   clock>>

Classify(message, data) == ClassifyWithin(MaxClassified, message, data)

NextClassify ==
    \E message \in CLASSIFY_MESSAGES, data \in CLASSIFY_ANSWERS : Classify(message, data)

\* the classifier is built over an empty database, the sheet reachable or
\* not; both routers of the process hold one like it
InitClassify == Start({0}) /\ chat_router.webhook = chat_router.chat

SpecClassify == InitClassify /\ [][NextClassify]_vars

\* One classifier asked again and again: two spellings of one question that
\* no rule answers, and two other messages, the model answering or failing.
MaxRepeated == 4

REPEATED_MESSAGES ==
    {<<1603, 1605, 32, 1587, 1593, 1585, 32, 1578, 1606, 1592, 1610, 1601, 32, 1575, 1604, 1575, 1587, 1606, 1575, 1606>> (* كم سعر تنظيف الاسنان *), <<32, 1603, 1605, 32, 1587, 1593, 1585, 32, 1578, 1606, 1592, 1610, 1601, 32, 1575, 1604, 1571, 1587, 1606, 1575, 1606, 32>> (*  كم سعر تنظيف الأسنان  *), <<1607, 1604, 1575>> (* هلا *), <<1588, 1603, 1585, 1575>> (* شكرا *)}

REPEATED_ANSWERS == {data \in CLASSIFY_ANSWERS : ~data.ok \/ data.confidence = 100}

NextRepeated ==
    \E message \in REPEATED_MESSAGES, data \in REPEATED_ANSWERS :
        ClassifyWithin(MaxRepeated, message, data)

SpecRepeated == InitClassify /\ [][NextRepeated]_vars

\* One classifier asked messages whose rule scores put one or two intents
\* over their thresholds.
MaxScored == 2

SCORE_MESSAGES ==
    {<<1588, 1603, 1585, 1575, 32, 1575, 1576, 1610, 32, 1575, 1581, 1580, 1586, 32, 1605, 1608, 1593, 1583>> (* شكرا ابي احجز موعد *), <<1605, 1593, 32, 1575, 1604, 1587, 1604, 1575, 1605, 1577, 32, 1575, 1576, 1610, 32, 1575, 1581, 1580, 1586>> (* مع السلامة ابي احجز *), <<1607, 1604, 1575, 32, 1575, 1576, 1610, 32, 1575, 1581, 1580, 1586>> (* هلا ابي احجز *), <<1575, 1608, 1602, 1575, 1578, 32, 1575, 1604, 1583, 1608, 1575, 1605, 32, 1581, 1580, 1586>> (* اوقات الدوام حجز *),
     <<1588, 1603, 1585, 1575>> (* شكرا *), <<1575, 1576, 1610, 32, 1575, 1581, 1580, 1586>> (* ابي احجز *), <<1575, 1608, 1602, 1575, 1578, 32, 1575, 1604, 1583, 1608, 1575, 1605>> (* اوقات الدوام *), <<1588, 1603, 1585, 1575, 32, 1605, 1593, 32, 1575, 1604, 1587, 1604, 1575, 1605, 1577>> (* شكرا مع السلامة *)}

NextScores ==
    \E message \in SCORE_MESSAGES, data \in REPEATED_ANSWERS :
        ClassifyWithin(MaxScored, message, data)

SpecScores == InitClassify /\ [][NextScores]_vars

\* ------------------------------------------------------------------------
\* The agent alone: one ChatAgent is asked for a reply, for every intent,
\* with or without the lists the router gathered, the sheet reachable or
\* not, the response model answering or failing.
\* ------------------------------------------------------------------------

MaxGenerated == 1

INTENTS ==
    {"greeting", "doctor", "branch", "service", "booking", "hours", "contact", "faq",
     "thanks", "goodbye", "general", "unclear"}

AGENT_MESSAGES == {<<1607, 1604, 1575>> (* هلا *), <<1575, 1576, 1610, 32, 1583, 1603, 1578, 1608, 1585, 32, 1575, 1587, 1606, 1575, 1606>> (* ابي دكتور اسنان *), <<1593, 1606, 1583, 1610, 32, 1587, 1572, 1575, 1604>> (* عندي سؤال *), <<1605, 1578, 1609, 32, 1605, 1608, 1593, 1583, 32, 1575, 1604, 1583, 1608, 1575, 1605>> (* متى موعد الدوام *)}

\* agent.generate_response(message, intent, [], context), nothing said before
Generate(message, intent, has_relevant, data, up) ==
    /\ served < MaxGenerated
    /\ \E o \in generate_response(chat_router.chat,
                                   [data_handler |-> data_handler, cache |-> cache],
                                   message, intent, <<>>, has_relevant, <<>>, clock, up,
                                   {data}) :
          /\ chat_router' = [chat_router EXCEPT !.chat._response_cache = o._response_cache]
          /\ data_handler' = o.d.data_handler
          /\ cache' = o.d.cache
          /\ last' = [handler |-> "generate_response", message |-> message,
                      intent |-> intent, has_relevant |-> has_relevant, up |-> up,
                      answer |-> data, raised |-> o.raised,
                      response_text |-> o.response_text, model_called |-> o.model_called]
    /\ served' = served + 1
    /\ UNCHANGED <<conversation_state, booking_tickets, conversation_history,
                   processed_messages, requests, in_flight, outbox, clock>>

NextAgent ==
    \E message \in AGENT_MESSAGES, intent \in INTENTS, has_relevant \in BOOLEAN,
       data \in AGENT_ANSWERS, up \in BOOLEAN :
        Generate(message, intent, has_relevant, data, up)

SpecAgent == InitClassify /\ [][NextAgent]_vars

\* ------------------------------------------------------------------------
\* The booking manager alone: identities whose booking waits for the date
\* send a message, the sync endpoint configured or not, answering or not.
\* ------------------------------------------------------------------------

MaxBooked == 2

SYNC_MESSAGES == {<<1576, 1603, 1585, 1577>> (* بكرة *), <<1578, 1582, 1591, 1609>> (* تخطى *), <<1575, 1604, 1587, 1575, 1593, 1577, 32, 53>> (* الساعة 5 *)}

\* booking_manager.process_message(user_id, platform, message)
BookingMessage(user_id, platform, message, configured, outcome) ==
    /\ served < MaxBooked
    /\ \E o \in {process_message_sync([conversation_state |-> conversation_state,
                                       booking_tickets |-> booking_tickets,
                                       conversation_history |-> conversation_history],
                                      user_id, platform, message, clock, configured,
                                      outcome)} :
          /\ conversation_state' = o.db.conversation_state
          /\ booking_tickets' = o.db.booking_tickets
          /\ last' = [handler |-> "process_message", user_id |-> user_id,
                      platform |-> platform, message |-> message,
                      configured |-> configured, outcome |-> outcome,
                      before |-> StatesOf(conversation_state, user_id, platform),
                      raised |-> o.raised, response |-> o.response,
                      is_complete |-> o.is_complete]
    /\ served' = served + 1
    /\ UNCHANGED <<conversation_history, processed_messages, data_handler, cache,
                   chat_router, requests, in_flight, outbox, clock>>

NextSync ==
    \/ \E user_id \in {U1, U2}, message \in SYNC_MESSAGES, configured \in BOOLEAN,
          outcome \in SYNC_OUTCOMES :
            BookingMessage(user_id, WEB, message, configured, outcome)
    \/ Tick

InitSync == Start({5, 10})

SpecSync == InitSync /\ [][NextSync]_vars

\* ------------------------------------------------------------------------
\* utils/entity_extractor.py alone: merge_entities on lists of at most
\* MaxEntities entities.
\* ------------------------------------------------------------------------

MaxEntities == 2
MaxMerged == 1

ENTITIES ==
    {Entity("phone", <<48, 53, 48, 49, 50, 51, 52, 53, 54, 55>> (* 0501234567 *), 95), Entity("phone", <<48, 53, 53, 57, 56, 55, 54, 53, 52, 51>> (* 0559876543 *), 80),
     Entity("date", <<1576, 1603, 1585, 1577>> (* بكرة *), 85), Entity("doctor_name", <<1587, 1575, 1585, 1577>> (* سارة *), 90)}

ENTITY_LISTS == UNION {[1..n -> ENTITIES] : n \in 0..MaxEntities}

\* merge_entities(preferred, fallback), and the result merged with fallback again
Merge(preferred, fallback) ==
    /\ served < MaxMerged
    /\ \E merged \in {merge_entities(preferred, fallback)} :
          last' = [handler |-> "merge_entities", preferred |-> preferred,
                   fallback |-> fallback, merged |-> merged,
                   again |-> merge_entities(merged, fallback)]
    /\ served' = served + 1
    /\ UNCHANGED <<conversation_state, booking_tickets, conversation_history,
                   processed_messages, data_handler, cache, chat_router, requests,
                   in_flight, outbox, clock>>

NextMerge == \E preferred \in ENTITY_LISTS, fallback \in ENTITY_LISTS : Merge(preferred, fallback)

SpecMerge == InitClassify /\ [][NextMerge]_vars

\* ------------------------------------------------------------------------
\* utils/arabic_normalizer.py alone: normalize_ar on texts of at most MaxText
\* characters: a space, tatweel, fatha, two Arabic letters, an Arabic-Indic
\* digit and a Latin capital.
\* ------------------------------------------------------------------------

MaxText == 3
MaxNormalized == 1

TEXT_CHARS == {32, 1600, 1614, 1607, 1571, 1637, 65}

TEXTS == UNION {[1..n -> TEXT_CHARS] : n \in 0..MaxText}

\* normalize_ar(s), and normalize_ar of the result
Normalize(s) ==
    /\ served < MaxNormalized
    /\ \E once \in {normalize_ar(s)} :
          last' = [handler |-> "normalize_ar", s |-> s, once |-> once,
                   twice |-> normalize_ar(once)]
    /\ served' = served + 1
    /\ UNCHANGED <<conversation_state, booking_tickets, conversation_history,
                   processed_messages, data_handler, cache, chat_router, requests,
                   in_flight, outbox, clock>>

NextNormalize == \E s \in TEXTS : Normalize(s)

SpecNormalize == InitClassify /\ [][NextNormalize]_vars

\* ------------------------------------------------------------------------
\* utils/phone.py alone: normalize_phone on a prefix followed by a body.
\* ------------------------------------------------------------------------

PHONE_INPUT_PREFIXES ==
    {<<>> (*  *), <<48>> (* 0 *), <<43, 57, 54, 54>> (* +966 *), <<48, 48, 57, 54, 54>> (* 00966 *), <<57, 54, 54>> (* 966 *), <<43, 57, 54, 54, 48, 57, 54, 54>> (* +9660966 *), <<57, 54, 54, 48, 57, 54, 54>> (* 9660966 *),
     <<48, 48, 57, 54, 54, 48, 48, 57, 54, 54>> (* 0096600966 *), <<43, 57, 54, 54, 32>> (* +966  *), <<32, 48>> (*  0 *), <<48, 48>> (* 00 *), <<43>> (* + *)}

PHONE_INPUT_BODIES ==
    {<<>> (*  *), <<53, 48, 49, 50, 51, 52, 53, 54, 55>> (* 501234567 *), <<53, 48, 32, 49, 50, 51, 45, 52, 53, 54, 55>> (* 50 123-4567 *), <<53, 1632, 1633, 1634, 1635, 1636, 1637, 1638, 1639>> (* 5٠١٢٣٤٥٦٧ *), <<53, 48, 49, 50, 51, 52, 53, 54>> (* 50123456 *),
     <<53, 48, 49, 50, 51, 52, 53, 54, 55, 56>> (* 5012345678 *), <<52, 48, 49, 50, 51, 52, 53, 54, 55>> (* 401234567 *), <<49, 50, 51>> (* 123 *), <<53, 49, 50, 51>> (* 5123 *), <<53, 48, 49, 50, 51, 52, 53, 54, 55, 32>> (* 501234567  *)}

\* normalize_phone(phone)
NormalizePhone(phone) ==
    /\ served < MaxNormalized
    /\ last' = [handler |-> "normalize_phone", phone |-> phone,
                result |-> normalize_phone(phone)]
    /\ served' = served + 1
    /\ UNCHANGED <<conversation_state, booking_tickets, conversation_history,
                   processed_messages, data_handler, cache, chat_router, requests,
                   in_flight, outbox, clock>>

NextPhone ==
    \E pre \in PHONE_INPUT_PREFIXES, body \in PHONE_INPUT_BODIES : NormalizePhone(pre \o body)

SpecPhone == InitClassify /\ [][NextPhone]_vars

\* ------------------------------------------------------------------------
\* Questions about the branches, sent by one identity with no booking in
\* progress; the intent model, when it is asked, fails or answers branch.
\* ------------------------------------------------------------------------

MaxAsked == 2

BRANCH_MESSAGES ==
    {<<1608, 1610, 1606, 32, 1601, 1585, 1608, 1593, 1603, 1605>> (* وين فروعكم *), <<1608, 1610, 1606, 32, 1575, 1604, 1601, 1585, 1608, 1593>> (* وين الفروع *), <<1601, 1585, 1608, 1593>> (* فروع *), <<1605, 1605, 1603, 1606, 32, 1575, 1593, 1585, 1601, 32, 1575, 1602, 1585, 1576, 32, 1605, 1603, 1575, 1606, 32, 1604, 1603, 1605, 32, 1601, 1610, 32, 1575, 1604, 1605, 1583, 1610, 1606, 1577>> (* ممكن اعرف اقرب مكان لكم في المدينة *),
     <<1575, 1576, 1610, 32, 1575, 1581, 1580, 1586, 32, 1601, 1610, 32, 1601, 1585, 1593, 32, 1575, 1604, 1593, 1604, 1610, 1575>> (* ابي احجز في فرع العليا *), <<1588, 1603, 1585, 1575>> (* شكرا *)}

BRANCH_ANSWERS ==
    {[ok |-> FALSE],
     [ok |-> TRUE, intent |-> "branch", entities |-> <<>>, confidence |-> 90,
      next_action |-> "use_llm"]}

\* Router.process(user_id, platform, message); `classified` is what classify
\* returned inside it: the intent, and whether the model was called
AskBranch(user_id, platform, message) ==
    /\ served < MaxAsked
    /\ \E up \in BOOLEAN :
         \E env \in {[Env(up) EXCEPT !.intent_answers = BRANCH_ANSWERS]} :
          \E o \in process(World("chat"), user_id, platform, message, env) :
            /\ Store(o, "chat")
            /\ last' = [handler |-> "process", user_id |-> user_id, platform |-> platform,
                        message |-> message, up |-> up, raised |-> o.raised,
                        response |-> o.response, branch |-> o.branch, calls |-> o.calls,
                        before |-> StatesOf(conversation_state, user_id, platform),
                        classified |->
                            {[intent |-> c.result.intent, model_called |-> c.model_called]
                             : c \in {x \in classify(chat_router.chat, message, clock,
                                                     BRANCH_ANSWERS) :
                                          o.router._intent_cache = x._intent_cache}}]
    /\ served' = served + 1
    /\ UNCHANGED <<processed_messages, requests, in_flight, outbox, clock>>

NextBranch == \E message \in BRANCH_MESSAGES : AskBranch(U1, WEB, message)

SpecBranch == InitClassify /\ [][NextBranch]_vars

\* ------------------------------------------------------------------------
\* Questions about doctors, services and branches, classified by the rules or
\* by the model, the sheet reachable or not.
\* ------------------------------------------------------------------------

DIRECT_MESSAGES ==
    {<<1605, 1610, 1606, 32, 1575, 1604, 1575, 1591, 1576, 1575, 1569, 32, 1593, 1606, 1583, 1603, 1605>> (* مين الاطباء عندكم *), <<1575, 1576, 1610, 32, 1583, 1603, 1578, 1608, 1585, 32, 1575, 1587, 1606, 1575, 1606>> (* ابي دكتور اسنان *), <<1583, 1603, 1578, 1608, 1585, 32, 1582, 1575, 1604, 1583, 32, 1575, 1604, 1593, 1578, 1610, 1576, 1610>> (* دكتور خالد العتيبي *), <<1575, 1604, 1582, 1583, 1605, 1575, 1578>> (* الخدمات *),
     <<1608, 1610, 1606, 32, 1575, 1604, 1601, 1585, 1608, 1593>> (* وين الفروع *), <<1575, 1576, 1610, 32, 1575, 1581, 1580, 1586, 32, 1593, 1606, 1583, 32, 1583, 1603, 1578, 1608, 1585, 32, 1587, 1575, 1585, 1577>> (* ابي احجز عند دكتور سارة *),
     <<1604, 1608, 32, 1587, 1605, 1581, 1578, 32, 1575, 1576, 1594, 1609, 32, 1575, 1593, 1585, 1601, 32, 1588, 1610, 32, 1576, 1582, 1589, 1608, 1589, 32, 1575, 1604, 1593, 1610, 1575, 1583, 1577>> (* لو سمحت ابغى اعرف شي بخصوص العيادة *)}

DIRECT_ANSWERS ==
    {[ok |-> FALSE],
     [ok |-> TRUE, intent |-> "doctor",
      entities |-> <<Entity("doctor_name", <<1587, 1575, 1585, 1577>> (* سارة *), 90)>>, confidence |-> 90,
      next_action |-> "use_llm"],
     [ok |-> TRUE, intent |-> "doctor",
      entities |-> <<Entity("doctor_name", <<1606, 1608, 1585, 1607>> (* نوره *), 90)>>, confidence |-> 90,
      next_action |-> "use_llm"],
     [ok |-> TRUE, intent |-> "service", entities |-> <<>>, confidence |-> 90,
      next_action |-> "use_llm"],
     [ok |-> TRUE, intent |-> "branch", entities |-> <<>>, confidence |-> 90,
      next_action |-> "use_llm"]}

\* Router.process(user_id, platform, message), the model answering one of
\* DIRECT_ANSWERS when classify asks it
AskDirect(user_id, platform, message) ==
    /\ served < MaxAsked
    /\ \E up \in BOOLEAN :
         \E env \in {[Env(up) EXCEPT !.intent_answers = DIRECT_ANSWERS]} :
          \E o \in process(World("chat"), user_id, platform, message, env) :
            /\ Store(o, "chat")
            /\ last' = [handler |-> "process", user_id |-> user_id, platform |-> platform,
                        message |-> message, up |-> up, raised |-> o.raised,
                        response |-> o.response, branch |-> o.branch, calls |-> o.calls,
                        before |-> StatesOf(conversation_state, user_id, platform),
                        classified |->
                            {[intent |-> c.result.intent, model_called |-> c.model_called]
                             : c \in {x \in classify(chat_router.chat, message, clock,
                                                     DIRECT_ANSWERS) :
                                          o.router._intent_cache = x._intent_cache}}]
    /\ served' = served + 1
    /\ UNCHANGED <<processed_messages, requests, in_flight, outbox, clock>>

NextDirect == \E message \in DIRECT_MESSAGES : AskDirect(U1, WEB, message)

SpecDirect == InitClassify /\ [][NextDirect]_vars

\* ------------------------------------------------------------------------
\* Turns whose persisting can fail: the commit of add_to_context succeeds or
\* raises, per request.
\* ------------------------------------------------------------------------

MaxConversed == 3

HISTORY_MESSAGES == {<<1588, 1603, 1585, 1575>> (* شكرا *), <<1608, 1610, 1606, 32, 1575, 1604, 1601, 1585, 1608, 1593>> (* وين الفروع *), <<1575, 1576, 1610, 32, 1575, 1581, 1580, 1586>> (* ابي احجز *)}

\* Router.process(user_id, platform, message) with a turn log that takes the
\* row (history_ok) or fails to; `earlier_failed` says that a turn before
\* this one was answered and not persisted
Converse(user_id, platform, message) ==
    /\ served < MaxConversed
    /\ \E up \in BOOLEAN, ok \in BOOLEAN :
         \E o \in process(World("chat"), user_id, platform, message,
                          [Env(up) EXCEPT !.history_ok = ok]) :
            /\ Store(o, "chat")
            /\ last' = [handler |-> "process", user_id |-> user_id, platform |-> platform,
                        message |-> message, up |-> up, history_ok |-> ok,
                        raised |-> o.raised, response |-> o.response,
                        branch |-> o.branch, calls |-> o.calls,
                        before |-> StatesOf(conversation_state, user_id, platform),
                        earlier_failed |->
                            /\ last.handler = "process"
                            /\ \/ last.earlier_failed
                               \/ ~last.history_ok /\ last.calls.add_to_context = 1]
    /\ served' = served + 1
    /\ UNCHANGED <<processed_messages, requests, in_flight, outbox, clock>>

NextHistory == \E message \in HISTORY_MESSAGES : Converse(U1, WEB, message)

SpecHistory == InitClassify /\ [][NextHistory]_vars

\* The answers of one identity whose booking was left in state name or in
\* state service, an empty and a blank message among them.
TICKET_MESSAGES == {<<>>, <<32, 32>> (*    *), <<32, 1578, 1606, 1592, 1610, 1601, 32>> (*  تنظيف  *), <<48, 53, 48, 49, 50, 51, 52, 53, 54, 55>> (* 0501234567 *), <<1576, 1603, 1585, 1577>> (* بكرة *)}

NextTicket == \E message \in TICKET_MESSAGES : Converse(U1, WEB, message)

InitTicket == Start({1, 3})

SpecTicket == InitTicket /\ [][NextTicket]_vars

\* ------------------------------------------------------------------------
\* core/context.py alone: build_context_string on histories of at most
\* MaxHistory turns, oldest first as get_recent_context returns them.
\* ------------------------------------------------------------------------

MaxHistory == 3
MaxBuilt == 1

TURNS ==
    {[message |-> <<1608, 1610, 1606, 32, 1575, 1604, 1601, 1585, 1608, 1593>> (* وين الفروع *), response |-> <<1601, 1585, 1593, 32, 1575, 1604, 1593, 1604, 1610, 1575>> (* فرع العليا *)],
     [message |-> <<1588, 1603, 1585, 1575>> (* شكرا *), response |-> <<1575, 1604, 1593, 1601, 1608>> (* العفو *)],
     [message |-> <<1575, 1576, 1610, 32, 1583, 1603, 1578, 1608, 1585, 32, 1575, 1587, 1606, 1575, 1606>> (* ابي دكتور اسنان *), response |-> <<1583, 46, 32, 1587, 1575, 1585, 1577, 32, 1575, 1604, 1602, 1581, 1591, 1575, 1606, 1610, 32, 1605, 1578, 1582, 1589, 1589, 1577, 32, 1578, 1602, 1608, 1610, 1605>> (* د. سارة القحطاني متخصصة تقويم *)],
     [message |-> <<1603, 1605, 32, 1587, 1593, 1585, 32, 1575, 1604, 1578, 1606, 1592, 1610, 1601>> (* كم سعر التنظيف *), response |-> <<50, 48, 48, 32, 1585, 1610, 1575, 1604>> (* 200 ريال *)]}

HISTORIES == UNION {[1..n -> TURNS] : n \in 0..MaxHistory}

MAX_LENGTHS == {20, 100, 1500}

\* context_manager.build_context_string(history, max_length)
BuildContext(history, max_length) ==
    /\ served < MaxBuilt
    /\ \E result \in build_context_string(history, max_length) :
          last' = [handler |-> "build_context_string", history |-> history,
                   max_length |-> max_length, result |-> result]
    /\ served' = served + 1
    /\ UNCHANGED <<conversation_state, booking_tickets, conversation_history,
                   processed_messages, data_handler, cache, chat_router, requests,
                   in_flight, outbox, clock>>

NextContext ==
    \E history \in HISTORIES, max_length \in MAX_LENGTHS : BuildContext(history, max_length)

SpecContext == InitClassify /\ [][NextContext]_vars

\* ------------------------------------------------------------------------
\* The reference data alone: the lists are read again and again while hours
\* pass, the sheet reachable or not.
\* ------------------------------------------------------------------------

MaxReads == 3
MaxHours == 2

\* data_handler.get_doctors() / get_branches() / get_services()
GetRows(table, up) ==
    /\ served < MaxReads
    /\ \E r \in {get_rows([data_handler |-> data_handler, cache |-> cache], table, clock, up)} :
          /\ data_handler' = r.d.data_handler
          /\ cache' = r.d.cache
          /\ last' = [handler |-> "get_rows", table |-> table, up |-> up,
                      raised |-> r.raised, rows |-> r.rows]
    /\ served' = served + 1
    /\ UNCHANGED <<conversation_state, booking_tickets, conversation_history,
                   processed_messages, chat_router, requests, in_flight, outbox, clock>>

\* an hour passes: the lifetime of an entry of the data cache
Hour ==
    /\ clock + CACHE_TTL <= START + MaxHours * CACHE_TTL
    /\ clock' = clock + CACHE_TTL
    /\ UNCHANGED <<conversation_state, booking_tickets, conversation_history,
                   processed_messages, data_handler, cache, chat_router, requests,
                   in_flight, outbox, served, last>>

NextData ==
    \/ \E table \in {"doctors", "services", "branches"}, up \in BOOLEAN : GetRows(table, up)
    \/ Hour

SpecData == InitClassify /\ [][NextData]_vars

\* ------------------------------------------------------------------------
\* Properties.  A step in which a handler ran is recognised by what only a
\* handler changes; last' then describes the request it served.
\* ------------------------------------------------------------------------

\* chat_api ran in this step
ChatRan == served' # served /\ in_flight' = in_flight

\* a webhook handler ran in this step
WebhookRan == in_flight' # in_flight /\ in_flight' \subseteq in_flight

Ran == ChatRan \/ WebhookRan

\* the rows, tickets and turns of the identity the request was for
OwnRows(cs, l) == {r \in cs : r.user_id = l.user_id /\ r.platform = l.platform}
OwnTickets(bt, l) == SelectSeq(bt, LAMBDA t : t.user_id = l.user_id /\ t.platform = l.platform)
OwnTurns(ch, l) == {r \in ch : r.user_id = l.user_id /\ r.platform = l.platform}

\* and those of every other identity
OtherRows(cs, l) == {r \in cs : ~(r.user_id = l.user_id /\ r.platform = l.platform)}
OtherTickets(bt, l) == SelectSeq(bt, LAMBDA t : ~(t.user_id = l.user_id /\ t.platform = l.platform))
OtherTurns(ch, l) == {r \in ch : ~(r.user_id = l.user_id /\ r.platform = l.platform)}

\* the request completed a booking flow: the state machine handled its
\* message in state date_time
Completes(l) == l.calls.process_message = 1 /\ l.before = {"date_time"}

\* C1: a completed flow stores exactly one ticket, for its identity, and the
\* identity's state record is gone afterwards; no other step stores or
\* removes a ticket, so an identity has as many tickets as flows it completed.
C1_CompletionStoresOneTicket ==
    [][IF Ran /\ Completes(last')
       THEN /\ Len(booking_tickets') = Len(booking_tickets) + 1
            /\ SubSeq(booking_tickets', 1, Len(booking_tickets)) = booking_tickets
            /\ Len(OwnTickets(booking_tickets', last')) =
                   Len(OwnTickets(booking_tickets, last')) + 1
            /\ OwnRows(conversation_state', last') = {}
       ELSE booking_tickets' = booking_tickets]_vars

\* two flows completed, the second just now
C1_Witness ==
    /\ Completes(last)
    /\ last.response = format_booking_confirmation
    /\ Len(booking_tickets) = 2
    /\ OwnRows(conversation_state, last) = {}
    /\ Len(OwnTickets(booking_tickets, last)) = 1

C3_ForwardOrder ==
    [][\A u \in {U1, U2}, p \in {WEB, WHATSAPP, INSTAGRAM} :
         LET before == StatesOf(conversation_state, u, p)
             after  == StatesOf(conversation_state', u, p)
         IN  before # after =>
                \/ before = {} /\ after = {"name"}
                \/ \E k \in 1..4 : before = {STATES[k]} /\ after = {STATES[k + 1]}
                \/ /\ before = {"date_time"} /\ after = {}
                   /\ Len(booking_tickets') = Len(booking_tickets) + 1
                \/ /\ before # {} /\ after = {}
                   /\ last'.branch = "cancel"
                   /\ booking_tickets' = booking_tickets]_vars

\* a record has just moved from branch to date_time
C3_Witness ==
    /\ last.before = {"branch"}
    /\ last.calls.process_message = 1
    /\ \E r \in OwnRows(conversation_state, last) : r.state = "date_time"

\* C4: in every booking state, a message that is a cancel keyword deletes
\* the identity's record, stores no ticket and is answered with the fixed
\* acknowledgement, and the state machine is not called.
C4_CancelDeletes ==
    [][Ran /\ last'.calls.process = 1 /\ last'.before # {}
           /\ strip(lower(last'.message)) \in CANCEL_WORDS
       => /\ OwnRows(conversation_state', last') = {}
          /\ booking_tickets' = booking_tickets
          /\ last'.response = CANCEL_REPLY
          /\ last'.calls.process_message = 0]_vars

\* a cancel keyword has just been answered in state date_time
C4_Witness ==
    /\ last.before = {"date_time"}
    /\ strip(lower(last.message)) \in CANCEL_WORDS
    /\ last.response = CANCEL_REPLY
    /\ OwnRows(conversation_state, last) = {}

\* the dedupe entries and the replies sent for the delivery of a request
Entries(pm, l) ==
    {i \in 1..Len(pm) : pm[i].platform = l.platform /\ pm[i].message_id = l.message_id}
Replies(ob, l) ==
    {i \in 1..Len(ob) : ob[i].platform = l.platform /\ ob[i].message_id = l.message_id}

\* C5, as the code has it: the first delivery of (platform, delivery_id)
\* leaves exactly one dedupe entry, calls Router.process once unless it is
\* rate-limited and sends one reply unless processing fails; a later delivery
\* of the pair is acknowledged as already processed, calls nothing and sends
\* nothing.  So a pair never has more than one entry or one reply.
C5_ReplayAtMostOnce ==
    [][WebhookRan /\ last'.message_id # <<>> /\ last'.status # "ignored"
       => /\ Cardinality(Entries(processed_messages', last')) = 1
          /\ Cardinality(Replies(outbox', last')) <= 1
          /\ IF Entries(processed_messages, last') # {}
             THEN /\ last'.status = "already_processed"
                  /\ last'.calls.process = 0 /\ last'.sent = 0
                  /\ outbox' = outbox
                  /\ processed_messages' = processed_messages
                  /\ conversation_history' = conversation_history
             ELSE /\ last'.status \in {"ok", "error", "rate_limited"}
                  /\ last'.calls.process = (IF last'.status = "rate_limited" THEN 0 ELSE 1)
                  /\ last'.sent = (IF last'.status = "error" THEN 0 ELSE 1)]_vars

\* a delivery answered once has just been delivered again
C5_Witness ==
    /\ last.status = "already_processed"
    /\ last.message_id = WAMID
    /\ Cardinality(Entries(processed_messages, last)) = 1
    /\ Cardinality(Replies(outbox, last)) = 1

\* C5, as claimed: the first delivery of (platform, delivery_id) calls
\* Router.process exactly once and sends exactly one reply, the pair has
\* exactly one dedupe entry, and the second delivery is acknowledged as
\* already processed.
C5_ReplayExactlyOnce ==
    [][WebhookRan /\ last'.message_id # <<>> /\ last'.status # "ignored"
       => /\ Cardinality(Entries(processed_messages', last')) = 1
          /\ IF Entries(processed_messages, last') # {}
             THEN /\ last'.status = "already_processed"
                  /\ last'.calls.process = 0 /\ last'.sent = 0
             ELSE last'.calls.process = 1 /\ last'.sent = 1]_vars

\* C6, as the code has it: of two deliveries of the same id handled
\* concurrently, one passes the dedupe check and the other is acknowledged
\* as already processed, without a call of Router.process and not as an
\* error; the one that passes calls Router.process unless it is rate-limited.
C6_ConcurrentOnePasses ==
    [][WebhookRan /\ last'.concurrent /\ last'.status # "ignored"
       => /\ Cardinality(Entries(processed_messages', last')) = 1
          /\ IF Entries(processed_messages, last') # {}
             THEN last'.status = "already_processed" /\ last'.calls.process = 0
             ELSE /\ last'.status \in {"ok", "error", "rate_limited"}
                  /\ last'.calls.process = 1 <=> last'.status # "rate_limited"]_vars

\* the second of two concurrent deliveries has just been acknowledged
C6_Witness ==
    /\ last.concurrent
    /\ last.status = "already_processed"
    /\ in_flight = {}
    /\ Cardinality(Entries(processed_messages, last)) = 1

\* C6, as claimed: of two concurrent deliveries of the same id, exactly one
\* triggers Router.process and the other is acknowledged as already
\* processed.
C6_ConcurrentExactlyOneProcessed ==
    [][WebhookRan /\ last'.concurrent /\ last'.status # "ignored"
       => IF Entries(processed_messages, last') # {}
          THEN last'.status = "already_processed" /\ last'.calls.process = 0
          ELSE last'.calls.process = 1]_vars

\* the places Router.process returns from (line 157 is never reached: the
\* block it closes is entered only when the test of line 148 holds, unless
\* the message is a bare booking word, and then next_action = start_booking)
BRANCHES ==
    {"cancel", "booking_step", "unclear", "general", "booking_start", "booking_clarify",
     "hours", "thanks", "goodbye", "contact", "faq", "direct", "agent"}

C8_StateMachineReplies ==
    [][Ran /\ last'.calls.process = 1 /\ last'.before # {}
           /\ strip(lower(last'.message)) \notin CANCEL_WORDS
       => /\ last'.response =
                process_message([conversation_state |-> conversation_state,
                                 booking_tickets |-> booking_tickets,
                                 conversation_history |-> conversation_history],
                                last'.user_id, last'.platform, last'.message, clock).response
          /\ last'.calls.classify = 0
          /\ last'.calls.generate_response = 0]_vars

\* C9: there is at most one booking state record per identity.
C9_OneRecordPerIdentity ==
    \A r1 \in conversation_state, r2 \in conversation_state :
        (r1.user_id = r2.user_id /\ r1.platform = r2.platform) => r1 = r2

\* a record has just been overwritten in place while the same user has
\* another on a second platform
C9_Witness ==
    /\ last.before = {"name"}
    /\ \E r \in OwnRows(conversation_state, last) : r.state = "phone"
    /\ \E r \in OtherRows(conversation_state, last) : r.user_id = last.user_id

\* C10: a request for identity (u, p) leaves the booking record, the tickets
\* and the turns of every other identity as they were.
C10_OtherIdentitiesUntouched ==
    [][Ran => /\ OtherRows(conversation_state', last') = OtherRows(conversation_state, last')
              /\ OtherTickets(booking_tickets', last') = OtherTickets(booking_tickets, last')
              /\ OtherTurns(conversation_history', last')
                     = OtherTurns(conversation_history, last')]_vars

\* a request of (u, p) has just changed its record while (u, p') and (u', p)
\* have records and (u', p) a turn log
C10_Witness ==
    /\ last.user_id = U1 /\ last.platform = WEB /\ last.status = "ok"
    /\ last.before # StatesOf(conversation_state, U1, WEB)
    /\ StatesOf(conversation_state, U1, WHATSAPP) # {}
    /\ StatesOf(conversation_state, U2, WEB) # {}
    /\ \E row \in conversation_history : row.user_id = U2 /\ row.platform = WEB

\* C11: while an identity's booking record exists, every field collected
\* before a step is still there after it, with the value it had: a step only
\* adds fields, and a doctor_name given at the start stays.
C11_CollectedDataGrows ==
    [][\A r \in conversation_state, q \in conversation_state' :
          (r.user_id = q.user_id /\ r.platform = q.platform)
             => /\ DOMAIN r.data \subseteq DOMAIN q.data
                /\ \A k \in DOMAIN r.data : q.data[k] = r.data[k]]_vars

\* a booking started with a doctor's name has just taken the patient's name
C11_Witness ==
    /\ last.before = {"name"}
    /\ last.calls.process_message = 1
    /\ \E r \in OwnRows(conversation_state, last) :
          /\ r.state = "phone"
          /\ {"doctor_name", "name"} \subseteq DOMAIN r.data

\* C12, as claimed: with the identity's booking in state branch, a message
\* through Router.process moves the record to date_time; a skip token leaves
\* branch unset and any other text is stored as branch.
C12_BranchStepAdvances ==
    [][Ran /\ last'.calls.process = 1 /\ last'.before = {"branch"}
       => /\ OwnRows(conversation_state', last') # {}
          /\ \A r \in OwnRows(conversation_state', last') :
                /\ r.state = "date_time"
                /\ IF lower(strip(last'.message)) \in SKIP_TOKENS
                   THEN "branch" \notin DOMAIN r.data
                   ELSE /\ "branch" \in DOMAIN r.data
                        /\ r.data["branch"] = strip(last'.message)]_vars

\* C13, as claimed: for an identity with no booking in progress, a record is
\* created only by a message that holds an explicit booking phrase or that
\* the classifier returned as booking with next_action start_booking; a
\* message that is exactly a bare booking word creates no record and is
\* answered by the response agent.
C13_BareWordAnswered ==
    [][ChatRan /\ last'.before = {}
       => /\ \A c \in classify(chat_router.chat, last'.message, clock, INTENT_ANSWERS),
                up \in BOOLEAN :
                \A o \in Classified([World("chat") EXCEPT !.router._intent_cache = c._intent_cache],
                                    last'.user_id, last'.platform, last'.message, c.result,
                                    get_recent_context(conversation_history, last'.user_id,
                                                       last'.platform, 10),
                                    [NoCalls EXCEPT !.classify = 1], Env(up)) :
                   OwnRows(o.db.conversation_state, last') # {}
                      => \/ any_in(EXPLICIT_BOOKING_KEYWORDS, strip(lower(last'.message)))
                         \/ /\ c.result.intent = "booking"
                            /\ c.result.next_action = "start_booking"
          /\ strip(lower(last'.message)) \in BARE_BOOKING_WORDS
                => /\ OwnRows(conversation_state', last') = {}
                   /\ last'.status = "ok"
                   /\ last'.branch = "agent"
                   /\ last'.calls.generate_response = 1]_vars

\* C13: for an identity with no booking in progress, a record is created
\* only by a message that holds an explicit booking phrase or that the
\* classifier returned as booking with next_action start_booking; a message
\* that is exactly a bare booking word creates no record and takes the way
\* of the response agent, which answers it unless the reference data cannot
\* be read, and then the request fails before the agent is called.
C13_StartsOnlyOnRequest ==
    [][ChatRan /\ last'.before = {}
       => /\ \A c \in classify(chat_router.chat, last'.message, clock, INTENT_ANSWERS),
                up \in BOOLEAN :
                \A o \in Classified([World("chat") EXCEPT !.router._intent_cache = c._intent_cache],
                                    last'.user_id, last'.platform, last'.message, c.result,
                                    get_recent_context(conversation_history, last'.user_id,
                                                       last'.platform, 10),
                                    [NoCalls EXCEPT !.classify = 1], Env(up)) :
                   OwnRows(o.db.conversation_state, last') # {}
                      => \/ any_in(EXPLICIT_BOOKING_KEYWORDS, strip(lower(last'.message)))
                         \/ /\ c.result.intent = "booking"
                            /\ c.result.next_action = "start_booking"
          /\ strip(lower(last'.message)) \in BARE_BOOKING_WORDS
                => /\ OwnRows(conversation_state', last') = {}
                   /\ last'.branch = "agent"
                   /\ last'.calls.process_message = 0
                   /\ last'.calls.generate_response
                         = (IF last'.status = "ok" THEN 1 ELSE 0)]_vars

\* the bare word <<1581, 1580, 1586>> (* حجز *), sent with no booking in progress, has just been
\* answered by the agent and no record exists
C13_Witness ==
    /\ last.handler = "chat_api"
    /\ last.before = {}
    /\ last.message = <<1581, 1580, 1586>> (* حجز *)
    /\ last.status = "ok"
    /\ last.branch = "agent"
    /\ last.calls.generate_response = 1
    /\ OwnRows(conversation_state, last) = {}

\* classify ran in this step
ClassifyRan == served' # served /\ last'.handler = "classify"

\* C14, as claimed: every result of classify whose intent is booking has
\* next_action start_booking exactly when its entities hold a doctor_name, a
\* service_name, a date or a time, and ask_clarification otherwise.
C14_BookingActionFollowsEntities ==
    [][ClassifyRan /\ last'.result.intent = "booking"
       => last'.result.next_action
             = (IF Types(last'.result.entities) \cap BOOKING_KEY_TYPES # {}
                THEN "start_booking" ELSE "ask_clarification")]_vars

\* the timestamps the limiter holds for the user of request l that are
\* inside the window at time now
Window(reqs, l, now) == SelectSeq(reqs[l.user_id], LAMBDA ts : ts > now - window_seconds)

\* C15, as claimed: a user has at most RATE_LIMIT_PER_MINUTE messages
\* forwarded to Router.process within 60 seconds (here the 60 seconds after
\* the start, every turn of the log being a message that was forwarded), and
\* a message that arrives when the user's window is full gets the fixed
\* notice and is not forwarded.
C15_AtMostLimitForwarded ==
    [][Ran => /\ clock' - START < window_seconds
                   => Cardinality({row \in conversation_history' :
                                      row.user_id = last'.user_id}) <= RATE_LIMIT_PER_MINUTE
              /\ (/\ last'.status \notin {"ignored", "already_processed"}
                  /\ Len(Window(requests, last', clock)) >= RATE_LIMIT_PER_MINUTE)
                   => /\ last'.response = RATE_LIMITED_REPLY
                      /\ last'.calls.process = 0]_vars

\* the model call failed: it raised, returned nothing or something that is
\* not a JSON object, or returned an object that does not validate
Failed(data) == ~data.ok \/ ~IsValidIntentData(data)

\* msg_norm of classify: normalize_ar(message.strip()).lower().strip()
NormOf(message) ==
    Only({Only({Only({Only({stripped
          : stripped \in {strip(lowered)}})
          : lowered \in {lower(normalized)}})
          : normalized \in {normalize_ar(msg)}})
          : msg \in {strip(message)}})

\* no rule of the reduced table matches the normalized text
Unmatched(text) ==
    /\ _clean_key(text) \notin {_clean_key(x) : x \in SIMPLE_GREETINGS}
    /\ ~any_in(GREETING_HINTS \cup THANKS_HINTS \cup GOODBYE_HINTS \cup BOOKING_WORDS
                 \cup HOURS_HINTS \cup BRANCH_HINTS \cup SERVICE_HINTS, text)
    /\ ~IsDoctorListQuery(text)

\* C16: classify returns whatever way the model call fails; when the call
\* it made failed, its result is the one of the reduced rule table for the
\* message, the intent one of the table's eight or unclear, and a message no
\* rule of the table matches comes back as unclear with ask_clarification.
C16_FailureFallsBack ==
    [][ClassifyRan
       => /\ \A data \in CLASSIFY_ANSWERS :
                Failed(data) => classify(chat_router.chat, last'.message, clock, {data}) # {}
          /\ (last'.model_called /\ Failed(last'.answer))
                => /\ last'.result
                        \in _fallback_classify(strip(last'.message),
                                               quick_extract_entities(strip(last'.message)),
                                               chat_router.chat._doctor_names)
                   /\ last'.result.intent
                        \in {"greeting", "thanks", "goodbye", "booking", "hours", "doctor",
                             "branch", "service", "unclear"}
                   /\ Only({Unmatched(text) : text \in {NormOf(last'.message)}})
                        <=> last'.result.intent = "unclear"
                   /\ last'.result.intent = "unclear"
                        => /\ last'.result.next_action = "ask_clarification"
                           /\ last'.result.confidence = 50]_vars

\* the model's output for a price question did not validate, and the
\* reduced table answered service
C16_Witness ==
    /\ last.handler = "classify"
    /\ last.model_called
    /\ last.answer.ok /\ ~IsValidIntentData(last.answer)
    /\ last.message = <<1603, 1605, 32, 1587, 1593, 1585, 32, 1578, 1606, 1592, 1610, 1601, 32, 1575, 1604, 1575, 1587, 1606, 1575, 1606>> (* كم سعر تنظيف الاسنان *)
    /\ last.result.intent = "service"
    /\ last.result.confidence = 75

\* generate_response ran in this step
GenerateRan == served' # served /\ last'.handler = "generate_response"

\* C17, as claimed: for every intent, when the response model fails,
\* generate_response returns a reply (the canned or cached one, or the
\* fallback of the intent when the model was asked) and no exception reaches
\* the caller, whatever the state of the reference data.
C17_AgentNeverRaises ==
    [][GenerateRan /\ ~last'.answer.ok
       => /\ ~last'.raised
          /\ last'.response_text # None
          /\ last'.model_called
                => \E doctors \in {<<>>, SHEET.doctors}, services \in {<<>>, SHEET.services},
                      branches \in {<<>>, SHEET.branches} :
                      last'.response_text
                         = FallbackReply(last'.message, last'.intent, doctors, services,
                                         branches)]_vars

\* the rules of classify fire on the message of this step
RuleFires ==
    /\ strip(last'.message) # <<>>
    /\ RuleResults(strip(last'.message), chat_router.chat._doctor_names) # {}

\* C18: when a message fires one of the rules of classify (greeting, thanks,
\* goodbye, booking, hours, the short-message ladder, the medium-confidence
\* rules), the model is not called, the returned intent is the intent of the
\* rule, and the outcome is the same whatever the model would have answered.
C18_RulesShortCircuit ==
    [][ClassifyRan /\ RuleFires
       => /\ ~last'.model_called
          /\ last'.result.intent
                \in {res.intent : res \in RuleResults(strip(last'.message),
                                                      chat_router.chat._doctor_names)}
          /\ Only({\A data \in CLASSIFY_ANSWERS :
                      classify(chat_router.chat, last'.message, clock, {data}) = asked
                    : asked \in {classify(chat_router.chat, last'.message, clock,
                                          {last'.answer})}})]_vars

\* C18 witness: a medium-confidence rule answered "branch" on a classifier
\* whose cache already holds another message, while the model stood ready
\* with a different intent.
C18_Witness ==
    /\ last.handler = "classify"
    /\ last.message = <<1608, 1610, 1606, 32, 1605, 1608, 1602, 1593, 32, 1575, 1604, 1593, 1610, 1575, 1583, 1577, 32, 1576, 1575, 1604, 1590, 1576, 1591>> (* وين موقع العيادة بالضبط *)
    /\ ~last.model_called
    /\ last.result.intent = "branch"
    /\ last.answer.ok /\ last.answer.intent = "booking"
    /\ Cardinality(chat_router.chat._intent_cache) = 2

\* the earlier calls of this classifier on the text of this step's message,
\* made within the lifetime of a cache entry
SameText ==
    {i \in DOMAIN last'.earlier :
        /\ NormOf(last'.earlier[i].message) = NormOf(last'.message)
        /\ clock - last'.earlier[i].at < INTENT_CACHE_TTL}

\* the texts this classifier was asked about, this step's included
TextsSeen ==
    ({NormOf(last'.earlier[i].message) : i \in DOMAIN last'.earlier}
        \cup {NormOf(last'.message)}) \ {<<>>}

NEXT_ACTIONS == {"respond_directly", "ask_clarification", "use_llm", "start_booking"}

\* C20, as claimed: every result classify returns, for every message and
\* every output of the model, has its intent among the twelve intents and
\* its next_action among the four next actions.
C20_ClosedSets ==
    [][ClassifyRan
       => /\ last'.result.intent \in INTENTS
          /\ last'.result.next_action \in NEXT_ACTIONS]_vars

\* C21, as claimed: the rules classify a message as booking only if it holds
\* an explicit want/request booking phrase; a message that merely holds a
\* booking or appointment word is not short-circuited to booking.
C21_BookingNeedsRequest ==
    [][ClassifyRan /\ RuleFires /\ last'.result.intent = "booking"
       => Only({any_in(BOOKING_STRICT, text) : text \in {NormOf(last'.message)}})]_vars

\* a list was read in this step
GetRan == served' # served /\ last'.handler = "get_rows"

\* the entry of the table in the data cache has passed its expiry
Expired(table) == \E e \in cache : e.key = table /\ e.expires <= clock

\* the table was fetched from the sheet in this step and stored
Fetched(table) ==
    \E e \in cache' \ cache : e.key = table /\ e.expires = clock + CACHE_TTL

\* C22, as claimed: once the cached list of a table has passed its expiry,
\* the next get_doctors/get_branches/get_services fetches the list from the
\* sheet and returns the fetched records; before the expiry nothing is
\* fetched.
C22_ExpiredIsFetchedAgain ==
    [][GetRan
       => /\ (Expired(last'.table) /\ last'.up)
                => /\ Fetched(last'.table)
                   /\ ~last'.raised
                   /\ last'.rows = SHEET[last'.table]
          /\ CacheGet(cache, last'.table, clock) # {}
                => /\ cache' = cache
                   /\ ~last'.raised]_vars

\* the booking manager handled a message in this step
BookingRan == served' # served /\ last'.handler = "process_message"

\* C23: whatever the outcome of the external sync call (success, HTTP
\* error, exception, timeout, or sync not configured), a message in state
\* date_time stores the ticket, deletes the booking state record and returns
\* the confirmation with is_complete true.
C23_SyncNeverBlocks ==
    [][BookingRan /\ last'.before = {"date_time"}
       => /\ ~last'.raised
          /\ Len(booking_tickets') = Len(booking_tickets) + 1
          /\ SubSeq(booking_tickets', 1, Len(booking_tickets)) = booking_tickets
          /\ booking_tickets'[Len(booking_tickets')].user_id = last'.user_id
          /\ StatesOf(conversation_state', last'.user_id, last'.platform) = {}
          /\ last'.response = format_booking_confirmation
          /\ last'.is_complete]_vars

\* C23 witness: a booking was completed while the sync endpoint was
\* configured and timing out.
C23_Witness ==
    /\ last.handler = "process_message"
    /\ last.before = {"date_time"}
    /\ last.configured /\ last.outcome = "timeout"
    /\ last.is_complete /\ ~last.raised
    /\ StatesOf(conversation_state, last.user_id, last.platform) = {}
    /\ Len(booking_tickets) >= 1
    /\ booking_tickets[Len(booking_tickets)].user_id = last.user_id

\* C24, as claimed: any two distinct tickets ever created have distinct
\* booking_id values, for all users, platforms and completion times.
C24_BookingIdsDistinct ==
    \A i \in DOMAIN booking_tickets, j \in DOMAIN booking_tickets :
        i # j => booking_tickets[i].payload.booking_id # booking_tickets[j].payload.booking_id

\* C25: when two messages of one identity are in the process at the same
\* time while the identity's booking is in state date_time, exactly one
\* ticket is created for the booking (by the message handled first) and the
\* state record is deleted once; the message handled second finds no booking
\* and creates nothing.
C25_ConcurrentOneTicket ==
    [][WebhookRan /\ last'.beside /\ last'.status = "ok"
       => /\ Len(OwnTickets(booking_tickets', last'))
                = Len(OwnTickets(booking_tickets, last'))
                    + (IF last'.before = {"date_time"} THEN 1 ELSE 0)
          /\ last'.before = {"date_time"}
                => /\ OwnRows(conversation_state', last') = {}
                   /\ last'.calls.process_message = 1
          /\ last'.before = {} => last'.calls.process_message = 0
          /\ Len(OwnTickets(booking_tickets', last')) <= 1]_vars

\* C25 witness: the second of two messages that waited side by side has
\* been handled: both are marked, the booking is gone and one ticket stands.
C25_Witness ==
    /\ last.handler = "whatsapp_webhook"
    /\ last.beside /\ last.status = "ok"
    /\ last.before = {}
    /\ last.user_id = U1
    /\ Len(processed_messages) = 2
    /\ processed_messages[1].message_id # last.message_id
    /\ processed_messages[2].message_id = last.message_id
    /\ in_flight = {}
    /\ OwnRows(conversation_state, last) = {}
    /\ Len(OwnTickets(booking_tickets, last)) = 1

\* C26, as claimed: when Router.process raises during a chat API request
\* and the configuration is production, the error response is a generic
\* server error holding no text of the exception; the detail of the
\* exception appears in the response only outside production.
C26_NoLeakInProduction ==
    [][ChatRan /\ last'.status = "error"
       => /\ last'.http[TRUE].status_code = 500
          /\ \A field \in DOMAIN last'.http[TRUE].body :
                ~contains(last'.http[TRUE].body[field], last'.exc)]_vars

\* merge_entities ran in this step
MergeRan == served' # served /\ last'.handler = "merge_entities"

\* the entities of `fallback`, in order, whose type no entity of `preferred` has
RECURSIVE AbsentFrom(_, _)
AbsentFrom(preferred, fallback) ==
    IF fallback = <<>> THEN <<>>
    ELSE (IF \E i \in DOMAIN preferred : preferred[i].type = Head(fallback).type
          THEN <<>> ELSE <<Head(fallback)>>)
         \o AbsentFrom(preferred, Tail(fallback))

\* C27: merge_entities(preferred, fallback) is preferred followed, in order,
\* by exactly the fallback entities whose type does not occur in preferred;
\* merging the result with the same fallback again changes nothing.
C27_MergePrefers ==
    [][MergeRan
       => /\ last'.merged = last'.preferred \o AbsentFrom(last'.preferred, last'.fallback)
          /\ last'.again = last'.merged]_vars

\* C27 witness: of two fallback entities one was of a type the preferred
\* list has and was dropped, the other was appended.
C27_Witness ==
    /\ last.handler = "merge_entities"
    /\ Len(last.preferred) = 1 /\ Len(last.fallback) = 2
    /\ last.preferred[1].type = "phone"
    /\ last.fallback[1].type = "phone" /\ last.fallback[1] # last.preferred[1]
    /\ last.fallback[2].type = "date"
    /\ last.merged = <<last.preferred[1], last.fallback[2]>>
    /\ last.again = last.merged

\* C28, as claimed: normalize_ar is idempotent for every input,
\* normalize_ar(normalize_ar(x)) = normalize_ar(x), tatweel or diacritics
\* next to whitespace at the start or the end of the text included.
C28_NormalizeIdempotent ==
    [][served' # served /\ last'.handler = "normalize_ar"
       => last'.twice = last'.once]_vars

\* C29, as claimed: for every input normalize_phone returns None or a text
\* in the canonical form 05XXXXXXXX, ten digits beginning 05.
C29_PhoneCanonical ==
    [][served' # served /\ last'.handler = "normalize_phone"
       => \/ last'.result = None
          \/ /\ Len(last'.result) = 10
             /\ last'.result[1] = 48
             /\ last'.result[2] = 53
             /\ \A i \in 1..10 : last'.result[i] \in 48..57]_vars

AskRan == served' # served /\ last'.handler = "process"

\* process classified the message as branch, no booking being in progress
BranchAsked ==
    AskRan /\ last'.before = {} /\ \E c \in last'.classified : c.intent = "branch"

\* the direct template over the rows: the header, then one numbered line per
\* row that has a name, in the order of the rows
BranchTemplate(rows) ==
    Only({<<128205, 32, 1575, 1604, 1601, 1585, 1608, 1593, 58, 10, 10>> (* 📍 الفروع:\n\n *)
          \o Numbered([i \in 1..Len(named) |->
                          named[i].branch_name
                          \o (IF named[i].address # <<>> /\ named[i].city # <<>>
                              THEN <<32, 45, 32>> (*  -  *) \o named[i].address \o <<44, 32>> (* ,  *) \o named[i].city
                              ELSE IF named[i].address # <<>>
                              THEN <<32, 45, 32>> (*  -  *) \o named[i].address
                              ELSE <<>>)], <<10>>)
          : named \in {SelectSeq(rows, LAMBDA b : b.branch_name # <<>>)}})

\* C30, as claimed: for a message classified as branch with no booking in
\* progress, process replies with the direct template listing exactly the
\* branches of the reference data that have a name, one numbered line per
\* branch in data order, and no model is called, neither the classifier's
\* nor the agent's.
C30_BranchDirectNoModel ==
    [][BranchAsked
       => /\ ~last'.raised
          /\ last'.response = BranchTemplate(SHEET.branches)
          /\ last'.calls.generate_response = 0
          /\ \A c \in last'.classified : ~c.model_called]_vars

\* C30, amended: for a message classified as branch with no booking in
\* progress, the agent is never called and no booking step is taken; process
\* raises exactly when the branches cannot be read, and otherwise replies
\* with the direct template listing exactly the branches that have a name,
\* one numbered line per branch in data order; the classifier's model is not
\* called when a rule or the classification cache decides the message.
C30_BranchDirect ==
    [][BranchAsked
       => Only({Only({Only({Only({
            /\ l.calls.generate_response = 0
            /\ l.calls.process_message = 0
            /\ l.raised = unread
            /\ ~l.raised => /\ l.response = BranchTemplate(SHEET.branches)
                            /\ l.branch = "direct"
            /\ \A c \in l.classified : decided => ~c.model_called
            : decided \in {\/ RuleResults(msg, chat_router.chat._doctor_names) # {}
                           \/ CacheGet(chat_router.chat._intent_cache, NormOf(msg),
                                       clock) # {}}})
            : unread \in {get_rows([data_handler |-> data_handler, cache |-> cache],
                                   "branches", clock, l.up).raised}})
            : msg \in {strip(l.message)}})
            : l \in {last'}})]_vars

C30_Witness ==
    /\ last.handler = "process"
    /\ last.message = <<1608, 1610, 1606, 32, 1601, 1585, 1608, 1593, 1603, 1605>> (* وين فروعكم *)
    /\ last.before = {}
    /\ last.classified = {[intent |-> "branch", model_called |-> FALSE]}
    /\ ~last.raised
    /\ last.calls.generate_response = 0
    /\ last.response = BranchTemplate(SHEET.branches)
    /\ Len(SelectSeq(SHEET.branches, LAMBDA b : b.branch_name # <<>>)) = 2
    /\ Len(SHEET.branches) = 3

ConverseRan == served' # served /\ last'.handler = "process"

\* C31: when persisting a turn fails inside add_to_context nothing is
\* raised: process returns the reply it produced and the turn log is left
\* unchanged; a later turn whose persisting succeeds is recorded, one row
\* more for the identity.
C31_FailedPersistSwallowed ==
    [][ConverseRan /\ last'.calls.add_to_context = 1
       => /\ ~last'.raised
          /\ last'.response # None
          /\ ~last'.history_ok => conversation_history' = conversation_history
          /\ last'.history_ok
                => \E row \in conversation_history' \ conversation_history :
                      /\ conversation_history' = conversation_history \cup {row}
                      /\ row.user_id = last'.user_id
                      /\ row.platform = last'.platform
                      /\ row.message = last'.message
                      /\ row.response = last'.response]_vars

C31_Witness ==
    /\ last.handler = "process"
    /\ last.earlier_failed
    /\ last.history_ok
    /\ ~last.raised
    /\ last.calls.add_to_context = 1
    /\ Cardinality(conversation_history) = 1
    /\ \E row \in conversation_history : row.message = last.message

BuildRan == served' # served /\ last'.handler = "build_context_string"

\* where sub first starts in s, 0 when it does not occur
Find(s, sub) ==
    Only({IF at = {} THEN 0 ELSE Least(at)
          : at \in {{i \in 1..(Len(s) - Len(sub) + 1) : SubSeq(s, i, i + Len(sub) - 1) = sub}}})

\* the text of turn i as it stands in the output
TurnText(history, i) ==
    <<1575, 1604, 1605, 1587, 1578, 1582, 1583, 1605, 58, 32>> (* المستخدم:  *) \o history[i].message \o <<10, 1575, 1604, 1576, 1608, 1578, 58, 32>> (* \nالبوت:  *) \o history[i].response

\* C32, as claimed: in the text built by build_context_string the included
\* turns appear in chronological order, the oldest kept turn first and the
\* most recent turn last.
C32_ContextChronological ==
    [][BuildRan
       => Only({\A i \in 1..Len(l.history), j \in 1..Len(l.history) :
                    /\ i < j
                    /\ TurnText(l.history, i) # TurnText(l.history, j)
                    /\ Find(l.result, TurnText(l.history, i)) > 0
                    /\ Find(l.result, TurnText(l.history, j)) > 0
                    => Find(l.result, TurnText(l.history, i))
                          < Find(l.result, TurnText(l.history, j))
                : l \in {last'}})]_vars

\* sum of the lengths of the entry texts of the last k turns
RECURSIVE LastLength(_, _)
LastLength(history, k) ==
    IF k = 0 THEN 0
    ELSE Len(<<1575, 1604, 1605, 1587, 1578, 1582, 1583, 1605, 58, 32>> (* المستخدم:  *)) + Len(history[Len(history) + 1 - k].message)
         + Len(<<10, 1575, 1604, 1576, 1608, 1578, 58, 32>> (* \nالبوت:  *)) + Len(history[Len(history) + 1 - k].response) + 2
         + LastLength(history, k - 1)

\* how many times sub occurs in s
Count(s, sub) ==
    Cardinality({i \in 1..(Len(s) - Len(sub) + 1) : SubSeq(s, i, i + Len(sub) - 1) = sub})

\* what the output holds besides the summary and the turns: the header of
\* the summary, the instruction, and one separator per part
CONTEXT_OVERHEAD == Len(CONTEXT_HEADER) + 1 + Len(CONTEXT_INSTRUCTION) + MaxHistory

\* C35, as claimed: build_context_string includes only whole turns, a
\* contiguous run starting at the most recent turn and stopped at the first
\* turn that would make the cumulative length exceed max_length; and the
\* length of its output never exceeds max_length plus an overhead that does
\* not depend on the content of the history.
C35_ContextWithinMaxLength ==
    [][BuildRan
       => Only({Only({Only({
            /\ Count(l.result, <<1575, 1604, 1605, 1587, 1578, 1582, 1583, 1605, 58, 32>> (* المستخدم:  *)) = kept
            /\ \A k \in 1..kept :
                  Count(l.result, TurnText(l.history, Len(l.history) + 1 - k)) >= 1
            /\ Len(l.result) <= l.max_length + CONTEXT_OVERHEAD
            : kept \in {Cardinality({k \in 1..Len(l.history) :
                            summary_length + LastLength(l.history, k) <= l.max_length})}})
            : summary_length \in {Len(Only(ContextSummaries(l.history)))}})
            : l \in {last'}})]_vars

\* C33, as claimed: a booking in progress is abandoned (its record deleted,
\* no ticket stored) only when the message is one of the cancel keywords;
\* any other answer is handed to the state machine, and in state date_time
\* it completes the booking in that turn.
C33_AbandonedOnlyOnCancel ==
    [][Ran /\ last'.calls.process = 1 /\ last'.before # {}
       => /\ OwnRows(conversation_state', last') = {}
             /\ Len(OwnTickets(booking_tickets', last'))
                   = Len(OwnTickets(booking_tickets, last'))
             => strip(lower(last'.message)) \in CANCEL_WORDS
          /\ strip(lower(last'.message)) \notin CANCEL_WORDS
             => /\ last'.calls.process_message = 1
                /\ last'.before = {"date_time"}
                      => Len(OwnTickets(booking_tickets', last'))
                            = Len(OwnTickets(booking_tickets, last')) + 1]_vars

\* the thresholds of the short-circuit rules, lines 269-303
SHORT_CIRCUIT == [greeting |-> 10, thanks |-> 10, goodbye |-> 10, booking |-> 9, hours |-> 9]

\* C34, as claimed: when the rule scores of a message put several intents
\* over their short-circuit thresholds and one of them has the strictly
\* highest score, classify returns that intent.
C34_HighestScoreWins ==
    [][ClassifyRan
       => Only({Only({Only({
            \A best \in over :
                /\ Cardinality(over) > 1
                /\ \A other \in over \ {best} : sc[other] < sc[best]
                => last'.result.intent = best
            : over \in {{k \in DOMAIN SHORT_CIRCUIT : sc[k] >= SHORT_CIRCUIT[k]}}})
            : sc \in {scores(msg_norm, _clean_key(msg_norm))}})
            : msg_norm \in {NormOf(last'.message)}})]_vars

\* C36: the state of a stored booking record is always one of name, phone,
\* service, branch, date_time; done is never stored, a completion deletes
\* the record.
C36_DoneNeverStored ==
    \A r \in conversation_state : r.state \in {"name", "phone", "service", "branch", "date_time"}

C36_Witness ==
    /\ Completes(last)
    /\ last.before = {"date_time"}
    /\ OwnRows(conversation_state, last) = {}
    /\ conversation_state # {}
    /\ Len(booking_tickets) >= 1

\* C40, as claimed: every stored ticket has a non-empty patient_name and a
\* non-empty service_requested, each the trimmed text the user sent in the
\* name and service states of the flow: the step of name stores the trimmed
\* message as name, the step of service stores it as service, and the
\* completion copies both into the ticket.
C40_TicketNameAndService ==
    [][ConverseRan /\ last'.calls.process_message = 1
       => /\ last'.before = {"name"}
                => \A r \in OwnRows(conversation_state', last') :
                      r.data["name"] = strip(last'.message)
          /\ last'.before = {"service"}
                => \A r \in OwnRows(conversation_state', last') :
                      r.data["service"] = strip(last'.message)
          /\ last'.before = {"date_time"}
                => \A r \in OwnRows(conversation_state, last') :
                      /\ Len(booking_tickets') = Len(booking_tickets) + 1
                      /\ booking_tickets'[Len(booking_tickets')].payload.patient_name
                            = Get(r.data, "name")
                      /\ booking_tickets'[Len(booking_tickets')].payload.service_requested
                            = Get(r.data, "service")
          /\ \A i \in 1..Len(booking_tickets') :
                /\ booking_tickets'[i].payload.patient_name # <<>>
                /\ booking_tickets'[i].payload.service_requested # <<>>]_vars

\* C37: a delivery id enters the dedupe set before the rate limiter and
\* Router.process are reached, so an id is processed at most once: a
\* delivery that is rate-limited or whose processing fails leaves its entry,
\* and a later delivery of an id that has an entry is acknowledged as
\* already processed without reaching the rate limiter or Router.process.
C37_MarkedBeforeProcessing ==
    [][WebhookRan /\ last'.message_id # <<>> /\ last'.status # "ignored"
       => /\ last'.status \in {"rate_limited", "error", "ok"}
             => /\ Entries(processed_messages, last') = {}
                /\ Cardinality(Entries(processed_messages', last')) = 1
          /\ last'.status = "rate_limited" => last'.calls.process = 0
          /\ Entries(processed_messages, last') # {}
             => /\ last'.status = "already_processed"
                /\ last'.calls.process = 0
                /\ last'.sent = 0
                /\ requests' = requests
                /\ UNCHANGED <<conversation_state, booking_tickets, conversation_history,
                               processed_messages, outbox, chat_router>>]_vars

\* a delivery that was rate-limited has just been delivered again
C37_Witness ==
    /\ last.status = "already_processed"
    /\ last.message_id = WAMID
    /\ Replies(outbox, last) # {}
    /\ \A i \in Replies(outbox, last) : outbox[i].text = RATE_LIMITED_REPLY
    /\ Cardinality(Entries(processed_messages, last)) = 1

\* C38, as claimed: a delivery without a message id is never entered in the
\* dedupe set, and every redelivery of it is passed to Router.process and
\* answered again.
C38_NoIdAlwaysProcessed ==
    [][WebhookRan /\ last'.message_id = <<>> /\ last'.status # "ignored"
       => /\ processed_messages' = processed_messages
          /\ last'.calls.process = 1
          /\ last'.status = "ok"
          /\ last'.sent = 1]_vars

\* C38, amended: a delivery without a message id is never entered in the
\* dedupe set and never acknowledged as already processed; every delivery
\* of it reaches the rate limiter, and is passed to Router.process and
\* answered with its reply unless the limiter refuses it (it is then
\* answered with the rate-limit notice) or Router.process raises (it is then
\* not answered).
C38_NoIdNeverDeduplicated ==
    [][WebhookRan /\ last'.message_id = <<>> /\ last'.status # "ignored"
       => /\ processed_messages' = processed_messages
          /\ last'.status \in {"ok", "error", "rate_limited"}
          /\ last'.status = "rate_limited"
                <=> ~is_allowed(requests, last'.user_id, clock).allowed
          /\ last'.calls.process = (IF last'.status = "rate_limited" THEN 0 ELSE 1)
          /\ last'.sent = (IF last'.status = "error" THEN 0 ELSE 1)
          /\ Len(outbox') = Len(outbox) + last'.sent
          /\ last'.status = "ok" => outbox'[Len(outbox')].text = last'.response
          /\ last'.status = "rate_limited"
                => outbox'[Len(outbox')].text = RATE_LIMITED_REPLY]_vars

\* the Instagram delivery has just been answered a second time
C38_Witness ==
    /\ last.handler = "instagram_webhook"
    /\ last.message_id = <<>>
    /\ last.status = "ok"
    /\ Cardinality({i \in 1..Len(outbox) : outbox[i].platform = INSTAGRAM
                                           /\ outbox[i].text = last.response}) = 2
    /\ \A i \in 1..Len(processed_messages) : processed_messages[i].platform # INSTAGRAM

\* process classified the message as doctor, service or branch, no booking
\* being in progress, and did not start a booking
DirectAsked ==
    /\ AskRan
    /\ last'.before = {}
    /\ \E c \in last'.classified : c.intent \in {"doctor", "service", "branch"}
    /\ last'.branch # "booking_start"

\* C39: for a message classified as doctor, service or branch that does not
\* start a booking, process never asks the Response Agent: whenever the
\* reference data can be read it returns the non-empty reply of
\* _respond_directly, and when process raises it is the read of the
\* reference data that failed, the agent still not being asked.
C39_DirectNeverAgent ==
    [][DirectAsked
       => Only({/\ l.calls.generate_response = 0
                /\ l.calls.process_message = 0
                /\ l.up => ~l.raised
                /\ l.raised => l.branch = "direct"
                /\ ~l.raised => /\ l.branch = "direct"
                                /\ Truthy(l.response)
                : l \in {last'}})]_vars

\* a question the model classified as doctor, answered with the card of the
\* doctor it named, the agent not asked
C39_Witness ==
    /\ last.handler = "process"
    /\ last.message = <<1604, 1608, 32, 1587, 1605, 1581, 1578, 32, 1575, 1576, 1594, 1609, 32, 1575, 1593, 1585, 1601, 32, 1588, 1610, 32, 1576, 1582, 1589, 1608, 1589, 32, 1575, 1604, 1593, 1610, 1575, 1583, 1577>> (* لو سمحت ابغى اعرف شي بخصوص العيادة *)
    /\ last.before = {}
    /\ last.classified = {[intent |-> "doctor", model_called |-> TRUE]}
    /\ ~last.raised
    /\ last.branch = "direct"
    /\ last.calls.generate_response = 0
    /\ Len(last.response) > 0
    /\ contains(last.response, <<1587, 1575, 1585, 1577, 32, 1575, 1604, 1602, 1581, 1591, 1575, 1606, 1610>> (* سارة القحطاني *))

====
